---- MODULE Spec2Model ----
(***************************************************************************)
(* Model of the excel-governance backend (src/backend): the audit event    *)
(* store and session registry, the batch ingestion service, the query      *)
(* engine and single-event lookup.                                         *)
(*                                                                         *)
(* The database is a pair [events, sessions] of committed tables.  A       *)
(* request handler works on a transaction, a pending copy of the tables    *)
(* that becomes the committed state on commit and is dropped on rollback   *)
(* (infrastructure/database.py, DatabaseManager.session).                  *)
(***************************************************************************)
EXTENDS Integers, Sequences, FiniteSets, TLC

VARIABLES
    events,         \* committed rows of table audit_events (a set of rows)
    sessions,       \* committed rows of table sessions, keyed by session_id
    max_batch_size, \* settings.max_batch_size, read once at start-up
    cleanup_runs,   \* number of runs of the event cleanup job so far
    accepted_rows,  \* history: every row an ingestion has committed so far
    request,        \* the request the client is composing or has sent
    response,       \* what the service returned for it, NoResponse before
    background,     \* BackgroundService: scheduler, jobs, the last job run
    feed,           \* the dashboard's live-feed connection (/api/dashboard/ws)
    ingests,        \* the ingestion requests that are handled concurrently
    db_manager,     \* DatabaseManager: engine, session factory, the database
    registry        \* committed rows of table registered_models

vars ==
    <<events, sessions, max_batch_size, cleanup_runs, accepted_rows, request,
      response, background, feed, ingests, db_manager, registry>>

----------------------------------------------------------------------------
(* Bounds of the model *)

\* Number of runs of the stale-session job.
MaxTicks == 2

\* The turns of the live feed's polling loop are counted modulo MaxPolls + 1.
MaxPolls == 2

\* Longest batch a client composes.
MaxLen == 3

\* Most parameters of one query that depart from their defaults.
MaxParams == 2

\* Most runs of the event cleanup job.
MaxCleanups == 1

\* Most rows of table registered_models.
MaxModels == 3

----------------------------------------------------------------------------
(* Values *)

\* Python's Optional[T]: None is the empty tuple, a value v is <<v>>.
None == <<>>
Some(v) == <<v>>

\* `if x:` on an Optional[str]: None and "" are falsy.
TruthyStr(o) == o # None /\ o[1] # ""

\* `if x:` on an Optional[list]: None and [] are falsy.
TruthyList(o) == o # None /\ o[1] # {}

\* A datetime: t is the instant (UTC wall clock), aware is tzinfo != None.
Aware(t) == [t |-> t, aware |-> TRUE]
Naive(t) == [t |-> t, aware |-> FALSE]

\* schemas.py / session_repository.py: naive datetimes are taken as UTC.
ensure_timezone_aware(dt) ==
    IF ~dt.aware THEN [dt EXCEPT !.aware = TRUE] ELSE dt

Min(a, b) == IF a < b THEN a ELSE b

\* Order of timezone-aware datetimes.
TimeLess(a, b) == a.t < b.t

\* AuditEventType members used by the model (models/database.py).
WORKBOOK_SAVE == 3
CELL_CHANGE == 6
SESSION_START == 12
ERROR == 16

\* The fields of an event the service reads, plus details, which stands for
\* the free-text fields that are copied and never interpreted.
RawEvent(id, ts, type, user, machine, sid, wb, corr, det) ==
    [event_id |-> id, timestamp |-> ts, event_type |-> type,
     user_name |-> user, machine_name |-> machine, session_id |-> sid,
     workbook_name |-> wb, correlation_id |-> corr, details |-> det]

\* The events a client may send.  Ids repeat, so that a batch can carry an
\* id twice or an id that is already stored; session s1 receives events at
\* three different times; one event has no session id and one an empty one;
\* one timestamp is naive; three events share timestamp 3.
Catalogue ==
    { RawEvent(1, Aware(1), CELL_CHANGE, Some("u1"), Some("m1"), Some("s1"),
               Some("w1"), Some("c1"), Some("a")),
      RawEvent(1, Naive(3), WORKBOOK_SAVE, Some("u2"), Some("m2"), Some("s2"),
               Some("w2"), None, None),
      RawEvent(2, Aware(2), CELL_CHANGE, Some("u2"), Some("m2"), Some("s1"),
               Some("w1"), Some("c1"), Some("b")),
      RawEvent(2, Aware(1), SESSION_START, None, None, None,
               None, None, None),
      RawEvent(2, Aware(3), CELL_CHANGE, Some("u1"), Some("m1"), Some("s2"),
               Some("w2"), Some("c1"), None),
      RawEvent(3, Aware(3), CELL_CHANGE, Some("u1"), Some("m1"), Some("s1"),
               Some("w2"), Some(""), Some("c")),
      RawEvent(3, Aware(2), ERROR, Some("u1"), Some("m2"), Some(""),
               None, Some("c1"), Some("")),
      RawEvent(3, Aware(1), WORKBOOK_SAVE, Some("u1"), Some("m1"), Some("s2"),
               Some("w1"), None, Some("a")) }

EventIds == {e.event_id : e \in Catalogue}

\* The latest instant of the catalogue.
LastInstant == CHOOSE t \in {e.timestamp.t : e \in Catalogue} :
                   \A e \in Catalogue : e.timestamp.t <= t

\* schemas.py AuditEventCreate: validation makes the timestamp aware.
AuditEventCreate(raw) ==
    [raw EXCEPT !.timestamp = ensure_timezone_aware(@)]

----------------------------------------------------------------------------
(* The database and its transactions *)

EmptyRegistry == [s \in {} |-> None]

\* A database state: both tables.
Db(ev, ss) == [events |-> ev, sessions |-> ss]

\* AsyncSession.commit: the pending state becomes the committed state.
Commit(db, tx) == tx

\* Faulty variant of rollback: the pending state survives.
Rollback_keeping_pending(db, tx) == tx

\* AsyncSession.rollback: the pending state is dropped.
Rollback(db, tx) == db

----------------------------------------------------------------------------
(* SessionRepository *)

\* Faulty variant of upsert_session: start_time is overwritten like the
\* actor fields.
upsert_session_overwriting_start(ss, session_id, user_name, machine_name, start_time) ==
    (session_id :> [user_name |-> user_name,
                    machine_name |-> machine_name,
                    start_time |-> ensure_timezone_aware(start_time),
                    end_time |-> IF session_id \in DOMAIN ss
                                 THEN ss[session_id].end_time ELSE None,
                    event_count |-> IF session_id \in DOMAIN ss
                                    THEN ss[session_id].event_count ELSE 0])
    @@ ss

\* As upsert_session, but an update opens the session again.
upsert_session_reopening(ss, session_id, user_name, machine_name, start_time) ==
    IF session_id \in DOMAIN ss
    THEN [ss EXCEPT
             ![session_id].user_name = user_name,
             ![session_id].machine_name = machine_name,
             ![session_id].end_time = None,
             ![session_id].start_time =
                 IF TimeLess(ensure_timezone_aware(start_time),
                             ensure_timezone_aware(@))
                 THEN ensure_timezone_aware(start_time) ELSE @]
    ELSE (session_id :> [user_name |-> user_name,
                         machine_name |-> machine_name,
                         start_time |-> ensure_timezone_aware(start_time),
                         end_time |-> None, event_count |-> 0]) @@ ss

\* upsert_session: create the row with event_count 0, or overwrite the
\* actor fields and keep the earlier start_time.
upsert_session(ss, session_id, user_name, machine_name, start_time) ==
    IF session_id \in DOMAIN ss
    THEN LET existing == ss[session_id]
             existing_start == ensure_timezone_aware(existing.start_time)
             new_start == ensure_timezone_aware(start_time)
         IN [ss EXCEPT ![session_id] =
                [existing EXCEPT !.user_name = user_name,
                                 !.machine_name = machine_name,
                                 !.start_time =
                                     IF TimeLess(new_start, existing_start)
                                     THEN new_start ELSE @]]
    ELSE (session_id :> [user_name |-> user_name,
                         machine_name |-> machine_name,
                         start_time |-> ensure_timezone_aware(start_time),
                         end_time |-> None,
                         event_count |-> 0]) @@ ss

\* Faulty variant of increment_event_count: adds the default increment 1.
increment_event_count_by_one(ss, session_id, increment) ==
    [s \in DOMAIN ss |->
        IF s = session_id
        THEN [ss[s] EXCEPT !.event_count = @ + 1]
        ELSE ss[s]]

\* increment_event_count: UPDATE sessions SET event_count = event_count + n
\* WHERE session_id = :id.
increment_event_count(ss, session_id, increment) ==
    [s \in DOMAIN ss |->
        IF s = session_id
        THEN [ss[s] EXCEPT !.event_count = @ + increment]
        ELSE ss[s]]

----------------------------------------------------------------------------
(* EventService._update_sessions *)

\* Faulty variant of the first loop: the first event of a session is kept,
\* not the earliest.
RECURSIVE collect_sessions_keeping_first(_, _, _)
collect_sessions_keeping_first(evs, i, sd) ==
    IF i > Len(evs) THEN sd
    ELSE LET event == evs[i]
             entry == <<event.user_name, event.machine_name, event.timestamp>>
         IN IF ~TruthyStr(event.session_id)
               \/ event.session_id[1] \in DOMAIN sd.data
            THEN collect_sessions_keeping_first(evs, i + 1, sd)
            ELSE collect_sessions_keeping_first(evs, i + 1,
                     [keys |-> Append(sd.keys, event.session_id[1]),
                      data |-> (event.session_id[1] :> entry) @@ sd.data])

\* The first loop: session_data maps each non-empty session id of the batch
\* to (user_name, machine_name, timestamp) of its earliest event; keys keeps
\* the dict's insertion order.
RECURSIVE collect_sessions(_, _, _)
collect_sessions(evs, i, sd) ==
    IF i > Len(evs) THEN sd
    ELSE LET event == evs[i]
             entry == <<event.user_name, event.machine_name, event.timestamp>>
         IN IF ~TruthyStr(event.session_id)
            THEN collect_sessions(evs, i + 1, sd)
            ELSE LET sid == event.session_id[1]
                 IN IF sid \notin DOMAIN sd.data
                    THEN collect_sessions(evs, i + 1,
                             [keys |-> Append(sd.keys, sid),
                              data |-> (sid :> entry) @@ sd.data])
                    ELSE IF TimeLess(event.timestamp, sd.data[sid][3])
                    THEN collect_sessions(evs, i + 1,
                             [sd EXCEPT !.data[sid] = entry])
                    ELSE collect_sessions(evs, i + 1, sd)

session_data(evs) ==
    collect_sessions(evs, 1, [keys |-> <<>>, data |-> EmptyRegistry])

\* sum(1 for e in events if e.session_id == session_id)
count_for_session(evs, sid) ==
    Cardinality({i \in 1..Len(evs) : evs[i].session_id = Some(sid)})

\* The second loop: upsert each session, then add its count.
RECURSIVE apply_sessions(_, _, _, _)
apply_sessions(ss, evs, sd, k) ==
    IF k > Len(sd.keys) THEN ss
    ELSE LET sid == sd.keys[k]
             d == sd.data[sid]
             upserted == upsert_session(ss, sid, d[1], d[2], d[3])
         IN apply_sessions(
                increment_event_count(upserted, sid,
                                      count_for_session(evs, sid)),
                evs, sd, k + 1)

update_sessions(ss, evs) == apply_sessions(ss, evs, session_data(evs), 1)

----------------------------------------------------------------------------
(* EventRepository.bulk_create *)

\* Faulty variant of the row dict: correlation_id is left out.
event_dict_without_correlation(event) ==
    [event_id |-> event.event_id, timestamp |-> event.timestamp,
     event_type |-> event.event_type, user_name |-> event.user_name,
     machine_name |-> event.machine_name, session_id |-> event.session_id,
     workbook_name |-> event.workbook_name,
     correlation_id |-> None, details |-> event.details]

\* The dict built for one AuditEvent row: every field is copied.
event_dict(event) ==
    [event_id |-> event.event_id, timestamp |-> event.timestamp,
     event_type |-> event.event_type, user_name |-> event.user_name,
     machine_name |-> event.machine_name, session_id |-> event.session_id,
     workbook_name |-> event.workbook_name,
     correlation_id |-> event.correlation_id, details |-> event.details]

event_dicts(evs) == [i \in 1..Len(evs) |-> event_dict(evs[i])]

\* Faulty variant of the key check: ids are compared with the table only.
primary_key_violated_in_table_only(table, chunk) ==
    \E i \in 1..Len(chunk) :
        \E row \in table : row.event_id = chunk[i].event_id

\* The primary key of audit_events (models/database.py): an INSERT of the
\* rows of chunk fails when one of their ids is in the table already or
\* occurs twice in the chunk.
primary_key_violated(table, chunk) ==
    \E i \in 1..Len(chunk) :
        \/ \E row \in table : row.event_id = chunk[i].event_id
        \/ \E j \in 1..(i - 1) : chunk[j].event_id = chunk[i].event_id

\* Faulty variant of the insert loop: rows whose id conflicts are skipped
\* (INSERT ... ON CONFLICT DO NOTHING) and still counted.
RECURSIVE insert_chunks_skipping_conflicts(_, _, _, _, _, _)
insert_chunks_skipping_conflicts(table, dicts, i, batch_size, total_inserted, fault) ==
    IF i > Len(dicts)
    THEN [raised |-> FALSE, error |-> "", table |-> table,
          total_inserted |-> total_inserted]
    ELSE LET batch == SubSeq(dicts, i, Min(i + batch_size - 1, Len(dicts)))
             ids == {row.event_id : row \in table}
         IN IF fault = "flush"
            THEN [raised |-> TRUE, error |-> "OperationalError: INSERT",
                  table |-> table, total_inserted |-> total_inserted]
            ELSE insert_chunks_skipping_conflicts(
                     table \cup {batch[k] : k \in
                                    {m \in 1..Len(batch) :
                                        batch[m].event_id \notin ids}},
                     dicts, i + batch_size, batch_size,
                     total_inserted + Len(batch), fault)

\* The loop over range(0, len(event_dicts), batch_size): add_all and flush
\* one chunk after the other.  fault = "flush" is a database error raised by
\* the first flush.
RECURSIVE insert_chunks(_, _, _, _, _, _)
insert_chunks(table, dicts, i, batch_size, total_inserted, fault) ==
    IF i > Len(dicts)
    THEN [raised |-> FALSE, error |-> "", table |-> table,
          total_inserted |-> total_inserted]
    ELSE LET batch == SubSeq(dicts, i, Min(i + batch_size - 1, Len(dicts)))
         IN IF fault = "flush"
            THEN [raised |-> TRUE, error |-> "OperationalError: INSERT",
                  table |-> table, total_inserted |-> total_inserted]
            ELSE IF primary_key_violated(table, batch)
            THEN [raised |-> TRUE, error |-> "IntegrityError: INSERT",
                  table |-> table, total_inserted |-> total_inserted]
            ELSE insert_chunks(
                     table \cup {batch[k] : k \in 1..Len(batch)},
                     dicts, i + batch_size, batch_size,
                     total_inserted + Len(batch), fault)

\* bulk_create on committed state db with pending state tx.  An empty list
\* returns 0 and touches nothing; otherwise all chunks are flushed and the
\* transaction committed, or it is rolled back and the error re-raised.
\* fault = "commit" is a database error raised by the commit.
bulk_create(db, tx, evs, batch_size, fault) ==
    IF evs = <<>>
    THEN [raised |-> FALSE, error |-> "", inserted |-> 0,
          db |-> db, tx |-> tx]
    ELSE LET r == insert_chunks(tx.events, event_dicts(evs), 1, batch_size,
                                0, fault)
             flushed == Db(r.table, tx.sessions)
         IN IF r.raised
            THEN [raised |-> TRUE, error |-> r.error, inserted |-> 0,
                  db |-> db, tx |-> Rollback(db, flushed)]
            ELSE IF fault = "commit"
            THEN [raised |-> TRUE, error |-> "OperationalError: COMMIT",
                  inserted |-> 0, db |-> db, tx |-> Rollback(db, flushed)]
            ELSE [raised |-> FALSE, error |-> "",
                  inserted |-> r.total_inserted,
                  db |-> Commit(db, flushed), tx |-> flushed]

\* delete_old_events: DELETE ... WHERE timestamp < :before_date, committed,
\* repeated until a statement deletes fewer than batch_size rows.  The
\* statement object has no limit attribute, so each statement deletes every
\* row that is old.  The result is the table, total_deleted and the
\* rowcount of each statement executed.
RECURSIVE delete_old_events(_, _, _, _)
delete_old_events(table, before_date, batch_size, total_deleted) ==
    LET old == {row \in table : TimeLess(row.timestamp, before_date)}
        deleted_count == Cardinality(old)
        total == total_deleted + deleted_count
    IN IF deleted_count < batch_size
       THEN [table |-> table \ old, total_deleted |-> total,
             statements |-> <<deleted_count>>]
       ELSE LET rest == delete_old_events(table \ old, before_date,
                                         batch_size, total)
            IN [rest EXCEPT !.statements = <<deleted_count>> \o @]

\* The WHERE clause query_events builds: a filter is appended only when its
\* parameter is truthy.  In SQL a NULL column is in no list and equals no
\* value.
row_matches(row, q) ==
    /\ TruthyList(q.event_types) => row.event_type \in q.event_types[1]
    /\ TruthyList(q.user_names) =>
           row.user_name # None /\ row.user_name[1] \in q.user_names[1]
    /\ TruthyList(q.session_ids) =>
           row.session_id # None /\ row.session_id[1] \in q.session_ids[1]
    /\ TruthyList(q.workbook_names) =>
           /\ row.workbook_name # None
           /\ row.workbook_name[1] \in q.workbook_names[1]
    /\ TruthyStr(q.correlation_id) => row.correlation_id = q.correlation_id
    /\ q.start_time # None => ~TimeLess(row.timestamp, q.start_time[1])
    /\ q.end_time # None => ~TimeLess(q.end_time[1], row.timestamp)

\* Names of mapped columns of AuditEvent that the model sorts by, and a name
\* that is an attribute of the class but no column (models/database.py).
SortableColumns == {"timestamp", "event_id"}
OtherAttributes == {"metadata"}

\* getattr(AuditEvent, order_by, AuditEvent.timestamp)
order_column(order_by) ==
    IF order_by \in SortableColumns \cup OtherAttributes
    THEN order_by ELSE "timestamp"

sort_key(row, column) ==
    IF column = "event_id" THEN row.event_id ELSE row.timestamp.t

\* As ordered_rows, but the direction asked for is ignored: ascending.
RECURSIVE ordered_rows_ignoring_direction(_, _, _)
ordered_rows_ignoring_direction(rows, column, order_desc) ==
    IF rows = {} THEN {<<>>}
    ELSE LET first == {r \in rows : \A o \in rows :
                          sort_key(r, column) <= sort_key(o, column)}
         IN UNION {{<<r>> \o s :
                       s \in ordered_rows_ignoring_direction(
                                 rows \ {r}, column, order_desc)} :
                   r \in first}

\* ORDER BY column [DESC]: every order of the rows the database may return;
\* rows with equal keys come in any order.
RECURSIVE ordered_rows(_, _, _)
ordered_rows(rows, column, order_desc) ==
    IF rows = {} THEN {<<>>}
    ELSE LET first == {r \in rows : \A o \in rows :
                          IF order_desc
                          THEN sort_key(r, column) >= sort_key(o, column)
                          ELSE sort_key(r, column) <= sort_key(o, column)}
         IN UNION {{<<r>> \o s :
                       s \in ordered_rows(rows \ {r}, column, order_desc)} :
                   r \in first}

\* OFFSET offset LIMIT limit
page_of(s, offset, limit) ==
    IF offset >= Len(s) THEN <<>>
    ELSE SubSeq(s, offset + 1, Min(offset + limit, Len(s)))

\* As query_events, but the count is taken over the rows of the page.
query_events_counting_page(table, q) ==
    LET filtered == {row \in table : row_matches(row, q)}
        column == order_column(q.order_by)
        shown == Min(q.limit,
                     IF q.offset >= Cardinality(filtered) THEN 0
                     ELSE Cardinality(filtered) - q.offset)
    IN IF column \in OtherAttributes
       THEN [raised |-> TRUE, total |-> shown, pages |-> {}]
       ELSE [raised |-> FALSE, total |-> shown,
             pages |-> {page_of(s, q.offset, q.limit) :
                           s \in ordered_rows(filtered, column,
                                              q.order_desc)}]

\* query_events: the count is taken over the filtered rows before sorting
\* and paging; sorting by an attribute that is no column raises.  The result
\* carries every page the database may return.
query_events(table, q) ==
    LET filtered == {row \in table : row_matches(row, q)}
        total_count == Cardinality(filtered)
        column == order_column(q.order_by)
    IN IF column \in OtherAttributes
       THEN [raised |-> TRUE, total |-> total_count, pages |-> {}]
       ELSE [raised |-> FALSE, total |-> total_count,
             pages |-> {page_of(s, q.offset, q.limit) :
                           s \in ordered_rows(filtered, column,
                                              q.order_desc)}]

\* get_by_id: SELECT ... WHERE event_id = :id, scalar_one_or_none.
get_by_id(table, event_id) ==
    LET found == {row \in table : row.event_id = event_id}
    IN IF found = {} THEN None ELSE Some(CHOOSE row \in found : TRUE)

----------------------------------------------------------------------------
(* EventService *)

BatchIngestResponse(accepted, rejected, errors) ==
    [kind |-> "ingest", accepted |-> accepted, rejected |-> rejected,
     errors |-> errors]

\* Faulty variant of the size check: off by one.
batch_size_exceeded_off_by_one(n, limit) == n > limit + 1

\* The size check of ingest_batch.
batch_size_exceeded(n, limit) == n > limit

\* As ingest_batch, but a batch that fails in bulk_create is reported with
\* no event rejected.
ingest_batch_rejecting_none(db, evs, track_sessions, limit, fault) ==
    IF batch_size_exceeded(Len(evs), limit)
    THEN [response |-> BatchIngestResponse(0, Len(evs),
                                           <<"BatchSizeExceeded">>),
          db |-> db, tx |-> db, broken |-> FALSE]
    ELSE IF track_sessions /\ fault = "sessions"
    THEN [response |-> BatchIngestResponse(0, Len(evs),
                                           <<"OperationalError: sessions">>),
          db |-> db, tx |-> db, broken |-> TRUE]
    ELSE LET tracked == IF track_sessions
                        THEN Db(db.events, update_sessions(db.sessions, evs))
                        ELSE db
             r == bulk_create(db, tracked, evs, limit, fault)
         IN IF r.raised
            THEN [response |-> BatchIngestResponse(0, 0, <<r.error>>),
                  db |-> r.db, tx |-> r.tx, broken |-> FALSE]
            ELSE [response |-> BatchIngestResponse(r.inserted, 0, <<>>),
                  db |-> r.db, tx |-> r.tx, broken |-> FALSE]

\* ingest_batch: the response, the committed state afterwards, the pending
\* state of the caller's session and whether that session's transaction is
\* left broken.  The error detail is str(e), which names the failing
\* statement.  fault = "sessions" is a database error raised by a flush
\* inside _update_sessions: the failed flush ends the transaction, nothing
\* of it can be committed.
ingest_batch(db, evs, track_sessions, limit, fault) ==
    IF batch_size_exceeded(Len(evs), limit)
    THEN [response |-> BatchIngestResponse(0, Len(evs),
                                           <<"BatchSizeExceeded">>),
          db |-> db, tx |-> db, broken |-> FALSE]
    ELSE IF track_sessions /\ fault = "sessions"
    THEN [response |-> BatchIngestResponse(0, Len(evs),
                                           <<"OperationalError: sessions">>),
          db |-> db, tx |-> db, broken |-> TRUE]
    ELSE LET tracked == IF track_sessions
                        THEN Db(db.events, update_sessions(db.sessions, evs))
                        ELSE db
             r == bulk_create(db, tracked, evs, limit, fault)
         IN IF r.raised
            THEN [response |-> BatchIngestResponse(0, Len(evs), <<r.error>>),
                  db |-> r.db, tx |-> r.tx, broken |-> FALSE]
            ELSE [response |-> BatchIngestResponse(r.inserted, 0, <<>>),
                  db |-> r.db, tx |-> r.tx, broken |-> FALSE]

\* settings.event_retention_days (config.py), in the model's unit of time.
event_retention_days == 90

\* Default batch_size of delete_old_events.
delete_batch_size == 1000

\* As cleanup_old_events, but the retention period is not subtracted.
cleanup_old_events_without_retention(table, now, retention_days) ==
    delete_old_events(table, now, delete_batch_size, 0)

\* cleanup_old_events: delete what is older than now - retention_days.
cleanup_old_events(table, now, retention_days) ==
    delete_old_events(table, Aware(now.t - retention_days),
                      delete_batch_size, 0)

\* AuditEventResponse.model_validate(row): the fields of the row, the
\* timestamp validated again.
AuditEventResponse(row) ==
    [row EXCEPT !.timestamp = ensure_timezone_aware(@)]

\* get_event: the validated row, or None.
get_event(table, event_id) ==
    LET event == get_by_id(table, event_id)
    IN IF event # None THEN Some(AuditEventResponse(event[1])) ELSE None

----------------------------------------------------------------------------
(* Statistics (EventRepository.get_statistics, EventService.get_statistics) *)

\* WHERE timestamp >= :start_time AND timestamp <= :end_time
in_period(row, start_time, end_time) ==
    start_time.t <= row.timestamp.t /\ row.timestamp.t <= end_time.t

\* COUNT(DISTINCT column): NULL is not counted.
count_distinct(values) == Cardinality({v \in values : v # None})

\* As get_statistics, but the user count is taken over the whole table.
get_statistics_counting_all_users(table, start_time, end_time) ==
    LET period == {row \in table : in_period(row, start_time, end_time)}
        types == {row.event_type : row \in period}
    IN [period_start |-> start_time, period_end |-> end_time,
        total_events |-> Cardinality(period),
        events_by_type |->
            [ty \in types |->
                Cardinality({row \in period : row.event_type = ty})],
        unique_users |-> count_distinct({row.user_name : row \in table}),
        unique_sessions |->
            count_distinct({row.session_id : row \in period}),
        unique_workbooks |->
            count_distinct({row.workbook_name : row \in period})]

\* EventRepository.get_statistics: five aggregate scans of the same period.
get_statistics(table, start_time, end_time) ==
    LET period == {row \in table : in_period(row, start_time, end_time)}
        types == {row.event_type : row \in period}
    IN [period_start |-> start_time, period_end |-> end_time,
        total_events |-> Cardinality(period),
        events_by_type |->
            [ty \in types |->
                Cardinality({row \in period : row.event_type = ty})],
        unique_users |-> count_distinct({row.user_name : row \in period}),
        unique_sessions |->
            count_distinct({row.session_id : row \in period}),
        unique_workbooks |->
            count_distinct({row.workbook_name : row \in period})]

\* timedelta(hours=24), in the model's unit of time (days).
statistics_period_days == 1

\* EventService.get_statistics: end_time defaults to now, start_time to 24
\* hours before end_time.
EventStatistics(table, start_time, end_time, now) ==
    LET end == IF end_time = None THEN now ELSE end_time[1]
        start == IF start_time = None
                 THEN [end EXCEPT !.t = @ - statistics_period_days]
                 ELSE start_time[1]
    IN get_statistics(table, start, end)

----------------------------------------------------------------------------
(* BackgroundService (services/background_service.py) *)

CLEANUP_JOB == "cleanup_old_events"
REAPER_JOB == "close_stale_sessions"

\* The jobs start() adds to the scheduler.
ScheduledJobs == {CLEANUP_JOB, REAPER_JOB}

\* No job has run yet.
NoRun ==
    [job |-> "none", failed |-> FALSE, escaped |-> FALSE, count |-> 0,
     cutoff |-> Aware(0)]

\* The service once the application has started: start() has run.
\* ticks counts the runs of the stale-session job.
Started ==
    [running |-> TRUE, jobs |-> ScheduledJobs, last |-> NoRun, ticks |-> 0]

\* BackgroundService.stop: scheduler.shutdown(wait=True).
stop(bg) == IF ~bg.running THEN bg ELSE [bg EXCEPT !.running = FALSE]

\* Faulty variant of job_run: the exception leaves the job function.
job_run_reraising(bg, job, raised, count, cutoff) ==
    [bg EXCEPT !.last = [job |-> job, failed |-> raised, escaped |-> raised,
                         count |-> count, cutoff |-> cutoff]]

\* One run of a job function: its body is inside try ... except Exception,
\* which logs the failure and returns; the scheduler and its jobs are not
\* touched.
job_run(bg, job, raised, count, cutoff) ==
    [bg EXCEPT !.last = [job |-> job, failed |-> raised, escaped |-> FALSE,
                         count |-> count, cutoff |-> cutoff]]

\* The database engines of infrastructure/database.py.
Backends == {"sqlite", "postgresql"}

\* What a DateTime(timezone=True) column holds when a row is loaded:
\* SQLite keeps no offset and gives a naive datetime back.
load_datetime(dt, backend) ==
    IF backend = "sqlite" THEN Naive(dt.t) ELSE Aware(dt.t)

\* SessionRepository.get_active_sessions: the sessions without end_time.
get_active_sessions(ss) == {sid \in DOMAIN ss : ss[sid].end_time = None}

\* SessionRepository.end_session: UPDATE sessions SET end_time, committed.
end_session(ss, session_id, end_time) ==
    [ss EXCEPT ![session_id].end_time = Some(ensure_timezone_aware(end_time))]

\* timedelta(hours=24), in the model's unit of time (days).
stale_session_days == 1

\* The loop body applied to the stale sessions one after the other.
RECURSIVE close_each(_, _, _)
close_each(ss, stale, backend) ==
    IF stale = {} THEN ss
    ELSE LET sid == CHOOSE x \in stale : TRUE
             start_time == load_datetime(ss[sid].start_time, backend)
             estimated_end == [start_time EXCEPT
                                  !.t = @ + stale_session_days]
         IN close_each(end_session(ss, sid, estimated_end), stale \ {sid},
                       backend)

\* The body of _close_stale_sessions.  Comparing a loaded naive start_time
\* with the aware cutoff_time raises TypeError, at the first active session.
close_stale_sessions(ss, now, backend) ==
    LET active == get_active_sessions(ss)
        cutoff_time == Aware(now.t - stale_session_days)
        raises == \E sid \in active :
                      load_datetime(ss[sid].start_time, backend).aware
                          # cutoff_time.aware
        stale == {sid \in active :
                     TimeLess(load_datetime(ss[sid].start_time, backend),
                              cutoff_time)}
    IN IF raises
       THEN [raised |-> TRUE, sessions |-> ss, closed_count |-> 0]
       ELSE [raised |-> FALSE, sessions |-> close_each(ss, stale, backend),
             closed_count |-> Cardinality(stale)]

\* get_active_sessions with its ORDER BY start_time DESC: the lists the
\* query may return; sessions that started together come in either order.
active_sessions_ordered(ss) ==
    LET active == get_active_sessions(ss)
        n == Cardinality(active)
    IN {order \in [1..n -> active] :
           /\ \A i, j \in 1..n : i # j => order[i] # order[j]
           /\ \A i, j \in 1..n :
                  i < j => ss[order[i]].start_time.t
                               >= ss[order[j]].start_time.t}

\* The loop of _close_stale_sessions over active_sessions from position i,
\* against a database that fails the statement of the fails_at-th
\* end_session call (0: it never fails).  ss is the committed registry:
\* end_session commits its UPDATE before it returns, so what the earlier
\* iterations wrote stays when a later one raises.  The rows compared are
\* the ones loaded before the loop.
RECURSIVE close_loop(_, _, _, _, _, _, _, _)
close_loop(ss, loaded, active_sessions, i, cutoff_time, backend, fails_at, closed_count) ==
    IF i > Len(active_sessions)
    THEN [raised |-> FALSE, sessions |-> ss, closed_count |-> closed_count]
    ELSE LET sid == active_sessions[i]
             start_time == load_datetime(loaded[sid].start_time, backend)
             estimated_end == [start_time EXCEPT
                                  !.t = @ + stale_session_days]
         IN IF start_time.aware # cutoff_time.aware
            THEN [raised |-> TRUE, sessions |-> ss,
                  closed_count |-> closed_count]
            ELSE IF ~TimeLess(start_time, cutoff_time)
            THEN close_loop(ss, loaded, active_sessions, i + 1, cutoff_time,
                            backend, fails_at, closed_count)
            ELSE IF closed_count + 1 = fails_at
            THEN [raised |-> TRUE, sessions |-> ss,
                  closed_count |-> closed_count]
            ELSE close_loop(end_session(ss, sid, estimated_end), loaded,
                            active_sessions, i + 1, cutoff_time, backend,
                            fails_at, closed_count + 1)

\* The body of _close_stale_sessions with the list the query returned and
\* the statement at which the database fails.
close_stale_sessions_in_order(ss, active_sessions, now, backend, fails_at) ==
    close_loop(ss, ss, active_sessions, 1,
               Aware(now.t - stale_session_days), backend, fails_at, 0)

----------------------------------------------------------------------------
(* Dashboard live feed (api/dashboard.py, websocket_endpoint) *)

\* limit=50 of both get_events_since calls.
delivery_limit == 50

\* _serialize_event: the fields the dashboard shows; a naive timestamp is
\* taken as UTC before isoformat().
serialize_event(row) ==
    [event_id |-> row.event_id, timestamp |-> Aware(row.timestamp.t),
     event_type |-> row.event_type, user_name |-> row.user_name,
     machine_name |-> row.machine_name, workbook_name |-> row.workbook_name,
     details |-> row.details]

\* As get_events_since, but with timestamp >= since_timestamp.
get_events_since_inclusive(table, since_timestamp, limit) ==
    LET newer == IF since_timestamp # None
                 THEN {row \in table :
                          ~TimeLess(row.timestamp,
                                    ensure_timezone_aware(since_timestamp[1]))}
                 ELSE table
        pages == {page_of(s, 0, limit) :
                     s \in ordered_rows(newer, "timestamp", TRUE)}
    IN {[i \in 1..Len(page) |-> serialize_event(page[i])] : page \in pages}

\* As get_events_since, but only the newest event is returned.
get_events_since_newest_only(table, since_timestamp, limit) ==
    LET newer == IF since_timestamp # None
                 THEN {row \in table :
                          TimeLess(ensure_timezone_aware(since_timestamp[1]),
                                   row.timestamp)}
                 ELSE table
        pages == {page_of(s, 0, 1) :
                     s \in ordered_rows(newer, "timestamp", TRUE)}
    IN {[i \in 1..Len(page) |-> serialize_event(page[i])] : page \in pages}

\* get_events_since: SELECT ... WHERE timestamp > :since ORDER BY timestamp
\* DESC LIMIT :limit, serialized; every list the database may return.
get_events_since(table, since_timestamp, limit) ==
    LET newer == IF since_timestamp # None
                 THEN {row \in table :
                          TimeLess(ensure_timezone_aware(since_timestamp[1]),
                                   row.timestamp)}
                 ELSE table
        pages == {page_of(s, 0, limit) :
                     s \in ordered_rows(newer, "timestamp", TRUE)}
    IN {[i \in 1..Len(page) |-> serialize_event(page[i])] : page \in pages}

\* get_metrics_data: the aggregates over the columns the model keeps.
get_metrics_data(table) ==
    [total_events |-> Cardinality(table),
     total_workbooks |->
         count_distinct({row.workbook_name : row \in table})]

\* No connection yet.  open: the handler is running; connected: the client
\* is there; polls: the turns of the polling loop, counted modulo
\* MaxPolls + 1.
NoFeed ==
    [open |-> FALSE, connected |-> FALSE, last_sent_timestamp |-> None,
     sent |-> <<>>, polls |-> 0]

\* The count of the turns of the loop after one more turn.
next_poll(n) == (n + 1) % (MaxPolls + 1)

\* websocket_endpoint up to the first sleep: accept, send the initial
\* message, set last_sent_timestamp from its first event.
feed_opened(table, initial_events) ==
    [open |-> TRUE, connected |-> TRUE,
     last_sent_timestamp |->
         IF initial_events # <<>> THEN Some(initial_events[1].timestamp)
         ELSE None,
     sent |-> <<[type |-> "initial", metrics |-> get_metrics_data(table),
                 events |-> initial_events]>>,
     polls |-> 0]

\* Faulty variant of feed_polled: an update is sent on every poll.
feed_polled_always_sending(fd, table, new_events) ==
    [fd EXCEPT
        !.last_sent_timestamp =
            IF new_events # <<>> THEN Some(new_events[1].timestamp) ELSE @,
        !.sent = IF fd.connected
                 THEN Append(@, [type |-> "update",
                                 metrics |-> get_metrics_data(table),
                                 events |-> new_events])
                 ELSE @,
        !.open = fd.connected,
        !.polls = next_poll(@)]

\* Faulty variant of feed_polled: last_sent_timestamp stays where the
\* initial message left it.
feed_polled_keeping_watermark(fd, table, new_events) ==
    IF new_events # <<>>
    THEN [fd EXCEPT
             !.sent = IF fd.connected
                      THEN Append(@, [type |-> "update",
                                      metrics |-> get_metrics_data(table),
                                      events |-> new_events])
                      ELSE @,
             !.open = fd.connected,
             !.polls = next_poll(@)]
    ELSE [fd EXCEPT !.polls = next_poll(@)]

\* One turn of the polling loop: if new_events is not empty, move
\* last_sent_timestamp to its first event and send an update.  send_json
\* raises when the client has gone, and the exception ends the handler; a
\* turn that has nothing to send does not touch the socket.
feed_polled(fd, table, new_events) ==
    IF new_events # <<>>
    THEN [fd EXCEPT
             !.last_sent_timestamp = Some(new_events[1].timestamp),
             !.sent = IF fd.connected
                      THEN Append(@, [type |-> "update",
                                      metrics |-> get_metrics_data(table),
                                      events |-> new_events])
                      ELSE @,
             !.open = fd.connected,
             !.polls = next_poll(@)]
    ELSE [fd EXCEPT !.polls = next_poll(@)]

----------------------------------------------------------------------------
(* Ingestion requests handled concurrently *)

\* upsert_session after its SELECT, for a session the SELECT has found.  The
\* attributes are assigned on the loaded object existing, and start_time is
\* compared with the loaded one; the flush writes, on the row as it is
\* committed by then, the columns whose value differs from the loaded one.
upsert_session_flush(ss, existing, session_id, user_name, machine_name, start_time) ==
    LET existing_start == ensure_timezone_aware(existing.start_time)
        new_start == ensure_timezone_aware(start_time)
    IN [ss EXCEPT
           ![session_id].user_name =
               IF user_name # existing.user_name THEN user_name ELSE @,
           ![session_id].machine_name =
               IF machine_name # existing.machine_name
               THEN machine_name ELSE @,
           ![session_id].start_time =
               IF TimeLess(new_start, existing_start) THEN new_start ELSE @]

\* The requests handled concurrently, each in a database session of its own.
Workers == {1, 2}

\* A request not yet received.
NoIngest ==
    [pc |-> "idle", events |-> <<>>, existing |-> None,
     response |-> [kind |-> "none"]]

NoIngests == [w \in Workers |-> NoIngest]

\* ingest_batch up to the SELECT of upsert_session, for a batch whose events
\* all carry session_id: an oversized batch is answered at once, otherwise
\* the request holds the row the SELECT returned, None if there is none.
ingest_selected(ss, evs, session_id, limit) ==
    IF batch_size_exceeded(Len(evs), limit)
    THEN [pc |-> "done", events |-> evs, existing |-> None,
          response |-> BatchIngestResponse(0, Len(evs),
                                           <<"BatchSizeExceeded">>)]
    ELSE [pc |-> "selected", events |-> evs,
          existing |-> IF session_id \in DOMAIN ss
                       THEN Some(ss[session_id]) ELSE None,
          response |-> [kind |-> "none"]]

\* The rest of ingest_batch and the commit.  The row lock of the UPDATE (the
\* write lock of SQLite) is held until the commit, so the statements from
\* the flush to the commit act on the committed store as one step.  A
\* session the SELECT did not find is inserted, and the INSERT fails on the
\* primary key when another transaction has committed the row meanwhile.
ingest_flushed(db, ing, session_id, limit) ==
    LET evs == ing.events
        d == session_data(evs).data[session_id]
    IN IF ing.existing = None /\ session_id \in DOMAIN db.sessions
       THEN [response |->
                 BatchIngestResponse(0, Len(evs),
                                     <<"IntegrityError: sessions">>),
             db |-> db]
       ELSE LET upserted ==
                    IF ing.existing = None
                    THEN upsert_session(db.sessions, session_id,
                                        d[1], d[2], d[3])
                    ELSE upsert_session_flush(db.sessions, ing.existing[1],
                                              session_id, d[1], d[2], d[3])
                counted == increment_event_count(
                               upserted, session_id,
                               count_for_session(evs, session_id))
                r == bulk_create(db, Db(db.events, counted), evs, limit,
                                 "none")
            IN IF r.raised
               THEN [response |->
                         BatchIngestResponse(0, Len(evs), <<r.error>>),
                     db |-> r.db]
               ELSE [response |-> BatchIngestResponse(r.inserted, 0, <<>>),
                     db |-> r.db]

----------------------------------------------------------------------------
(* Model registration (model_repository.py, model_service.py) *)

\* ModelRepository.get_by_id: the row with the id, None if there is none.
get_model_by_id(reg, model_id) ==
    IF \E m \in reg : m.model_id = model_id
    THEN Some(CHOOSE m \in reg : m.model_id = model_id)
    ELSE None

\* str(uuid4()): an id no row has; ids are numbered in the model.
new_model_id(reg) == Cardinality(reg) + 1

\* ModelService.register with ModelRepository.create.  Without
\* existing_model_id the version is 1; with it, the existing row must be
\* there and have the same model_name (ValueError otherwise) and the
\* version is its version + 1.  The row gets an id of its own and is
\* committed; when the commit raises, it is rolled back and the error
\* re-raised.
register(reg, model_name, existing_model_id, commit_raised) ==
    LET existing == IF existing_model_id # None
                    THEN get_model_by_id(reg, existing_model_id[1])
                    ELSE None
        version == IF existing_model_id # None /\ existing # None
                   THEN existing[1].version + 1 ELSE 1
        model == [model_id |-> new_model_id(reg), model_name |-> model_name,
                  version |-> version, is_active |-> TRUE]
    IN IF existing_model_id # None /\ existing = None
       THEN [response |-> [kind |-> "bad_request", detail |-> "not found"],
             registry |-> reg]
       ELSE IF existing_model_id # None
               /\ existing[1].model_name # model_name
       THEN [response |-> [kind |-> "bad_request",
                           detail |-> "name mismatch"],
             registry |-> reg]
       ELSE IF commit_raised
       THEN [response |-> [kind |-> "error", error |-> "OperationalError"],
             registry |-> reg]
       ELSE [response |-> [kind |-> "model", model |-> model],
             registry |-> reg \cup {model}]

\* ModelRepository.list_models: the rows whose (model_name, version) is a
\* row of the subquery SELECT model_name, max(version) ... GROUP BY
\* model_name, which is restricted to active rows when active_only.  The
\* rows are given as a set: the order of the list is left out.
list_models(reg, active_only) ==
    LET counted == IF active_only THEN {m \in reg : m.is_active} ELSE reg
        max_version ==
            {<<m.model_name, m.version>> :
                m \in {c \in counted :
                          \A d \in counted :
                              d.model_name = c.model_name =>
                                  d.version <= c.version}}
    IN {m \in reg : <<m.model_name, m.version>> \in max_version}

----------------------------------------------------------------------------
(* DatabaseManager (infrastructure/database.py) and the probes *)

\* DatabaseManager.__init__: no engine, no session factory.  reachable is
\* the database itself, whether it answers; started is history: an
\* initialize call has completed without raising and the engine it made has
\* not been disposed of since.
Uninitialized ==
    [engine |-> FALSE, session_factory |-> FALSE, reachable |-> TRUE,
     started |-> FALSE]

\* The manager after an application start-up that succeeded.
Initialized ==
    [engine |-> TRUE, session_factory |-> TRUE, reachable |-> TRUE,
     started |-> TRUE]

\* DatabaseManager.is_initialized
is_initialized(dm) == dm.engine

\* initialize raises: create_async_engine raises, or health_check does.
initialize_raised(dm, engine_raised) ==
    ~dm.engine /\ (engine_raised \/ ~dm.reachable)

\* DatabaseManager.initialize: returns at once when there is an engine;
\* otherwise creates the engine (which may raise), then the session
\* factory, then runs health_check, which raises when the database does not
\* answer.  The except clause logs and re-raises and resets nothing.
initialize(dm, engine_raised) ==
    IF dm.engine THEN dm
    ELSE IF engine_raised THEN dm
    ELSE IF ~dm.reachable
    THEN [dm EXCEPT !.engine = TRUE, !.session_factory = TRUE]
    ELSE [dm EXCEPT !.engine = TRUE, !.session_factory = TRUE,
                    !.started = TRUE]

\* DatabaseManager.shutdown: nothing without an engine; otherwise dispose,
\* then drop engine and session factory; when dispose raises, the except
\* clause logs and both stay.
shutdown(dm, dispose_raised) ==
    IF ~dm.engine THEN dm
    ELSE IF dispose_raised THEN dm
    ELSE [dm EXCEPT !.engine = FALSE, !.session_factory = FALSE,
                    !.started = FALSE]

\* GET /ready
readiness(dm) ==
    IF ~is_initialized(dm)
    THEN [kind |-> "ready", ready |-> FALSE,
          reason |-> Some("database_not_initialized")]
    ELSE [kind |-> "ready", ready |-> TRUE, reason |-> None]

\* GET /health under the session dependency: db_manager.session raises
\* RuntimeError without a session factory; otherwise the status follows
\* DatabaseManager.health_check.
health_check(dm) ==
    IF ~dm.session_factory
    THEN [kind |-> "error", error |-> "RuntimeError"]
    ELSE [kind |-> "health",
          status |-> IF dm.engine /\ dm.reachable THEN "healthy"
                     ELSE "unhealthy",
          database_initialized |-> is_initialized(dm)]

----------------------------------------------------------------------------
(* Request handlers (api/events.py) under the session dependency *)

\* DatabaseManager.session: commit when the handler returns, roll back when
\* the commit raises because the transaction is broken.
session_exit(db, tx, broken) ==
    IF broken THEN Rollback(db, tx) ELSE Commit(db, tx)

NoResponse == [kind |-> "none"]
EmptyBatch == [kind |-> "batch", events |-> <<>>]
Idle == request = EmptyBatch /\ response = NoResponse

\* The ways the database may fail during one ingestion.
Faults == {"none", "sessions", "flush", "commit"}

\* The settings the service is started with.
BatchSizeSettings == {1, MaxLen}

Init ==
    /\ events = {}
    /\ sessions = EmptyRegistry
    /\ max_batch_size \in BatchSizeSettings
    /\ cleanup_runs = 0
    /\ accepted_rows = {}
    /\ request = EmptyBatch
    /\ response = NoResponse
    /\ background = Started
    /\ feed = NoFeed
    /\ ingests = NoIngests
    /\ db_manager = Initialized
    /\ registry = {}

\* The client adds one validated event to the batch it is composing, up to
\* longest events and up to one event more than the service admits.
ComposeUpTo(longest) ==
    /\ request.kind = "batch"
    /\ response = NoResponse
    /\ Len(request.events) < longest
    /\ Len(request.events) <= max_batch_size
    /\ \E raw \in Catalogue :
           request' = [request EXCEPT
                          !.events = Append(@, AuditEventCreate(raw))]
    /\ UNCHANGED <<events, sessions, max_batch_size, cleanup_runs,
                   accepted_rows, response, background, feed, ingests,
                   db_manager, registry>>

Compose == ComposeUpTo(MaxLen)

\* POST /api/events: ingest_events calls ingest_batch, then the session
\* dependency commits.
Ingest ==
    /\ request.kind = "batch"
    /\ response = NoResponse
    /\ \E fault \in Faults :
           LET r == ingest_batch(Db(events, sessions), request.events, TRUE,
                                 max_batch_size, fault)
               final == session_exit(r.db, r.tx, r.broken)
           IN /\ events' = final.events
              /\ sessions' = final.sessions
              /\ response' = r.response
              /\ accepted_rows' = accepted_rows \cup (final.events \ events)
    /\ UNCHANGED <<max_batch_size, cleanup_runs, request, background, feed,
                   ingests, db_manager, registry>>

\* GET /api/events/{event_id}
GetEvent ==
    /\ Idle
    /\ \E id \in EventIds :
           /\ request' = [kind |-> "get", event_id |-> id]
           /\ response' = [kind |-> "event", event |-> get_event(events, id)]
    /\ UNCHANGED <<events, sessions, max_batch_size, cleanup_runs,
                   accepted_rows, background, feed, ingests,
                   db_manager, registry>>

\* Defaults and the upper limit of the paging parameters (schemas.py).
default_limit == 100
limit_max == 1000

\* The query parameters as the client sends them.
RawQueries ==
    [event_types : {None, Some({}), Some({CELL_CHANGE}),
                    Some({CELL_CHANGE, WORKBOOK_SAVE})},
     user_names : {None, Some({}), Some({"u1"})},
     session_ids : {None, Some({}), Some({"s1"})},
     workbook_names : {None, Some({}), Some({"w1"})},
     correlation_id : {None, Some(""), Some("c1")},
     start_time : {None, Some(Aware(2)), Some(Aware(3))},
     end_time : {None, Some(Aware(2)), Some(Naive(1))},
     offset : {0, 1, 2},
     limit : {default_limit, 1, 2},
     order_by : {"timestamp", "event_id", "no_such_column", "metadata"},
     order_desc : BOOLEAN]

DefaultQuery ==
    [event_types |-> None, user_names |-> None, session_ids |-> None,
     workbook_names |-> None, correlation_id |-> None, start_time |-> None,
     end_time |-> None, offset |-> 0, limit |-> default_limit,
     order_by |-> "timestamp", order_desc |-> TRUE]

QueryFields == DOMAIN DefaultQuery

Queries ==
    {q \in RawQueries :
        Cardinality({f \in QueryFields : q[f] # DefaultQuery[f]}) <= MaxParams}

\* schemas.py EventQueryRequest: validation makes both times aware.
EventQueryRequest(raw) ==
    [raw EXCEPT
        !.start_time = IF @ # None THEN Some(ensure_timezone_aware(@[1]))
                       ELSE @,
        !.end_time = IF @ # None THEN Some(ensure_timezone_aware(@[1]))
                     ELSE @]

EventQueryResponse(total, offset, limit, page) ==
    [kind |-> "query", total |-> total, offset |-> offset, limit |-> limit,
     events |-> [i \in 1..Len(page) |-> AuditEventResponse(page[i])]]

\* POST /api/events/query
Query ==
    /\ Idle
    /\ \E raw \in Queries :
           LET q == EventQueryRequest(raw)
               r == query_events(events, q)
           IN /\ request' = [kind |-> "query", params |-> q]
              /\ IF r.raised
                 THEN response' = [kind |-> "error"]
                 ELSE \E page \in r.pages :
                          response' = EventQueryResponse(r.total, q.offset,
                                                         q.limit, page)
    /\ UNCHANGED <<events, sessions, max_batch_size, cleanup_runs,
                   accepted_rows, background, feed, ingests,
                   db_manager, registry>>

\* The event cleanup job (background_service._cleanup_old_events) runs at
\* some time now at which the cutoff lies within or just after the
\* catalogue's instants.
Cleanup ==
    /\ cleanup_runs < MaxCleanups
    /\ \E t \in 1..(LastInstant + 1) :
           LET r == cleanup_old_events(events,
                                       Aware(t + event_retention_days),
                                       event_retention_days)
           IN events' = r.table
    /\ cleanup_runs' = cleanup_runs + 1
    /\ UNCHANGED <<sessions, max_batch_size, accepted_rows, request, response,
                   background, feed, ingests, db_manager, registry>>

\* The client has read the response and turns to its next request.
Ack ==
    /\ response # NoResponse
    /\ request' = EmptyBatch
    /\ response' = NoResponse
    /\ UNCHANGED <<events, sessions, max_batch_size, cleanup_runs,
                   accepted_rows, background, feed, ingests,
                   db_manager, registry>>

Next == Compose \/ Ingest \/ GetEvent \/ Ack

Spec == Init /\ [][Next]_vars

\* Ingestion of one event at a time, lookups and the event cleanup job.
ComposeOne == ComposeUpTo(1)

NextRetention == ComposeOne \/ Ingest \/ GetEvent \/ Cleanup \/ Ack

SpecRetention == Init /\ [][NextRetention]_vars

\* Ingestion of one event at a time and queries.
NextQuery == ComposeOne \/ Ingest \/ Query \/ Ack

SpecQuery == Init /\ [][NextQuery]_vars

\* The events of the reporting scenario: five events with ids of their own,
\* two pairs of them with equal timestamps.
RecentCatalogue ==
    {RawEvent(1, Aware(1), CELL_CHANGE, Some("u1"), Some("m1"), Some("s1"),
              Some("w1"), Some("c1"), Some("a")),
     RawEvent(2, Aware(2), CELL_CHANGE, Some("u2"), Some("m2"), Some("s1"),
              Some("w1"), None, None),
     RawEvent(3, Naive(2), WORKBOOK_SAVE, Some("u1"), Some("m1"), Some("s2"),
              Some("w2"), Some("c1"), None),
     RawEvent(4, Aware(3), SESSION_START, None, None, None, None, None,
              None),
     RawEvent(5, Aware(3), CELL_CHANGE, Some("u1"), Some("m1"), Some("s1"),
              None, None, Some("b"))}

\* The client puts one event of the reporting scenario in its batch.
ComposeRecent ==
    /\ request.kind = "batch"
    /\ response = NoResponse
    /\ Len(request.events) < 1
    /\ \E raw \in RecentCatalogue :
           request' = [request EXCEPT
                          !.events = Append(@, AuditEventCreate(raw))]
    /\ UNCHANGED <<events, sessions, max_batch_size, cleanup_runs,
                   accepted_rows, response, background, feed, ingests,
                   db_manager, registry>>

\* The periods a client asks statistics for, and the times it asks at.
StatisticsTimes == {None, Some(Aware(1)), Some(Aware(2)), Some(Naive(3))}
StatisticsNow == {Aware(3), Aware(4)}

\* GET /api/events/statistics
Statistics ==
    /\ Idle
    /\ \E start_time \in StatisticsTimes, end_time \in StatisticsTimes,
          now \in StatisticsNow :
           /\ request' = [kind |-> "statistics", start_time |-> start_time,
                          end_time |-> end_time, now |-> now]
           /\ response' = [kind |-> "statistics",
                           stats |-> EventStatistics(events, start_time,
                                                     end_time, now)]
    /\ UNCHANGED <<events, sessions, max_batch_size, cleanup_runs,
                   accepted_rows, background, feed, ingests,
                   db_manager, registry>>

\* Ingestion of the reporting scenario, queries and statistics.
NextReport == ComposeRecent \/ Ingest \/ Query \/ Statistics \/ Ack

SpecReport == Init /\ [][NextReport]_vars

\* The batch sizes and cutoffs delete_old_events is applied with.
DeleteBatchSizes == {1, 2, delete_batch_size}

\* A caller applies EventRepository.delete_old_events to the store.
DeleteOldEvents ==
    /\ Idle
    /\ cleanup_runs < MaxCleanups
    /\ \E t \in 1..(LastInstant + 1), batch_size \in DeleteBatchSizes :
           LET r == delete_old_events(events, Aware(t), batch_size, 0)
           IN /\ events' = r.table
              /\ request' = [kind |-> "delete_old_events",
                             before_date |-> Aware(t),
                             batch_size |-> batch_size]
              /\ response' = [kind |-> "deleted",
                              total_deleted |-> r.total_deleted,
                              statements |-> r.statements]
    /\ cleanup_runs' = cleanup_runs + 1
    /\ UNCHANGED <<sessions, max_batch_size, accepted_rows, background,
                   feed, ingests, db_manager, registry>>

NextDelete == ComposeOne \/ Ingest \/ DeleteOldEvents \/ Ack

SpecDelete == Init /\ [][NextDelete]_vars

\* The times the stale-session job runs at: the cutoff lies on a session's
\* start, or after every start.
ReaperTimes == {Aware(LastInstant), Aware(LastInstant + 2)}

\* The stale-session job (background_service._close_stale_sessions) runs
\* against either database engine.
CloseStaleSessions ==
    /\ background.running
    /\ REAPER_JOB \in background.jobs
    /\ background.ticks < MaxTicks
    /\ \E now \in ReaperTimes, backend \in Backends :
           LET r == close_stale_sessions(sessions, now, backend)
               ran == job_run(background, REAPER_JOB, r.raised,
                              r.closed_count,
                              Aware(now.t - stale_session_days))
           IN /\ sessions' = r.sessions
              /\ background' = [ran EXCEPT !.ticks = @ + 1]
    /\ UNCHANGED <<events, max_batch_size, cleanup_runs, accepted_rows,
                   request, response, feed, ingests, db_manager, registry>>

\* A run of the event cleanup job as the scheduler starts it, with its
\* outcome as the job logs it.  The database may fail the DELETE statement:
\* the repository rolls back and raises, and the job logs the failure.
CleanupJob ==
    /\ background.running
    /\ CLEANUP_JOB \in background.jobs
    /\ cleanup_runs < MaxCleanups
    /\ \E t \in 1..(LastInstant + 1), raised \in BOOLEAN :
           LET now == Aware(t + event_retention_days)
               r == cleanup_old_events(events, now, event_retention_days)
           IN /\ events' = IF raised THEN events ELSE r.table
              /\ background' =
                     job_run(background, CLEANUP_JOB, raised,
                             IF raised THEN 0 ELSE r.total_deleted,
                             Aware(now.t - event_retention_days))
    /\ cleanup_runs' = cleanup_runs + 1
    /\ UNCHANGED <<sessions, max_batch_size, accepted_rows, request, response,
                   feed, ingests, db_manager, registry>>

\* The stale-session job runs against a database that may fail one of the
\* UPDATE statements of the run.
CloseStaleSessionsUnreliable ==
    /\ background.running
    /\ REAPER_JOB \in background.jobs
    /\ background.ticks < MaxTicks
    /\ \E now \in ReaperTimes, backend \in Backends,
          active_sessions \in active_sessions_ordered(sessions),
          fails_at \in 0..Cardinality(DOMAIN sessions) :
           LET r == close_stale_sessions_in_order(sessions, active_sessions,
                                                  now, backend, fails_at)
               ran == job_run(background, REAPER_JOB, r.raised,
                              r.closed_count,
                              Aware(now.t - stale_session_days))
           IN /\ sessions' = r.sessions
              /\ background' = [ran EXCEPT !.ticks = @ + 1]
    /\ UNCHANGED <<events, max_batch_size, cleanup_runs, accepted_rows,
                   request, response, feed, ingests, db_manager, registry>>

\* Application shutdown: BackgroundService.stop.
Stop ==
    /\ background.running
    /\ background' = stop(background)
    /\ UNCHANGED <<events, sessions, max_batch_size, cleanup_runs,
                   accepted_rows, request, response, feed, ingests,
                   db_manager, registry>>

\* The events of the session scenario: two sessions, the first with a
\* later event of another user.
SessionCatalogue ==
    {RawEvent(1, Aware(1), SESSION_START, Some("u1"), Some("m1"), Some("s1"),
              Some("w1"), None, None),
     RawEvent(2, Naive(3), CELL_CHANGE, Some("u2"), Some("m2"), Some("s1"),
              Some("w1"), None, None),
     RawEvent(3, Aware(2), CELL_CHANGE, Some("u1"), Some("m1"), Some("s2"),
              Some("w2"), None, None)}

\* The client puts one event of the session scenario in its batch.
ComposeSession ==
    /\ request.kind = "batch"
    /\ response = NoResponse
    /\ Len(request.events) < 1
    /\ \E raw \in SessionCatalogue :
           request' = [request EXCEPT
                          !.events = Append(@, AuditEventCreate(raw))]
    /\ UNCHANGED <<events, sessions, max_batch_size, cleanup_runs,
                   accepted_rows, response, background, feed, ingests,
                   db_manager, registry>>

\* Ingestion of the session scenario and the two scheduled jobs.
NextBackground ==
    ComposeSession \/ Ingest \/ Ack \/ CleanupJob \/ CloseStaleSessions
        \/ Stop

SpecBackground == Init /\ [][NextBackground]_vars

\* The same with a database that may fail within a run of either job.
NextJobs ==
    ComposeSession \/ Ingest \/ Ack \/ CleanupJob
        \/ CloseStaleSessionsUnreliable \/ Stop

SpecJobs == Init /\ [][NextJobs]_vars

\* A dashboard opens the live feed.
Connect ==
    /\ feed = NoFeed
    /\ \E initial_events \in get_events_since(events, None, delivery_limit) :
           feed' = feed_opened(events, initial_events)
    /\ UNCHANGED <<events, sessions, max_batch_size, cleanup_runs,
                   accepted_rows, request, response, background, ingests,
                   db_manager, registry>>

\* One turn of the polling loop, after the sleep.
Poll ==
    /\ feed.open
    /\ \E new_events \in get_events_since(events, feed.last_sent_timestamp,
                                           delivery_limit) :
           feed' = feed_polled(feed, events, new_events)
    /\ UNCHANGED <<events, sessions, max_batch_size, cleanup_runs,
                   accepted_rows, request, response, background, ingests,
                   db_manager, registry>>

\* The dashboard goes away.  The handler never receives from the socket,
\* so it learns of it only from a send that fails.
Disconnect ==
    /\ feed.open
    /\ feed.connected
    /\ feed' = [feed EXCEPT !.connected = FALSE]
    /\ UNCHANGED <<events, sessions, max_batch_size, cleanup_runs,
                   accepted_rows, request, response, background, ingests,
                   db_manager, registry>>

\* Ingestion of one event at a time while a dashboard follows the feed.
NextFeed == ComposeOne \/ Ingest \/ Ack \/ Connect \/ Poll \/ Disconnect

SpecFeed == Init /\ [][NextFeed]_vars

\* The events a dashboard follows: three events with ids of their own, two
\* of them at the same instant.
FollowCatalogue ==
    {RawEvent(1, Aware(1), CELL_CHANGE, Some("u1"), Some("m1"), Some("s1"),
              Some("w1"), None, None),
     RawEvent(2, Aware(2), CELL_CHANGE, Some("u2"), Some("m2"), Some("s1"),
              Some("w1"), None, None),
     RawEvent(3, Aware(2), WORKBOOK_SAVE, Some("u1"), Some("m1"), None,
              Some("w2"), None, None)}

FollowIds == {e.event_id : e \in FollowCatalogue}

\* The client puts one of these events in its batch.
ComposeFollow ==
    /\ request.kind = "batch"
    /\ response = NoResponse
    /\ Len(request.events) < 1
    /\ \E raw \in FollowCatalogue :
           request' = [request EXCEPT
                          !.events = Append(@, AuditEventCreate(raw))]
    /\ UNCHANGED <<events, sessions, max_batch_size, cleanup_runs,
                   accepted_rows, response, background, feed, ingests,
                   db_manager, registry>>

\* Ingestion of these events while a dashboard follows the feed; the event
\* loop wakes a running handler from its sleep for its next turn.
NextFollow ==
    ComposeFollow \/ Ingest \/ Ack \/ Connect \/ Poll \/ Disconnect

SpecFollow == Init /\ [][NextFollow]_vars /\ WF_vars(Poll)

\* main.py before the lifespan has run: background_service is None.
NoBackground ==
    [running |-> FALSE, jobs |-> {}, last |-> NoRun, ticks |-> 0]

\* The service before its start-up.
InitLifecycle ==
    /\ events = {}
    /\ sessions = EmptyRegistry
    /\ max_batch_size \in BatchSizeSettings
    /\ cleanup_runs = 0
    /\ accepted_rows = {}
    /\ request = EmptyBatch
    /\ response = NoResponse
    /\ background = NoBackground
    /\ feed = NoFeed
    /\ ingests = NoIngests
    /\ db_manager = Uninitialized
    /\ registry = {}

\* The start-up half of the lifespan: db_manager.initialize, and when it
\* has not raised, a new BackgroundService is started; when it has raised,
\* the lifespan re-raises.
Startup ==
    /\ \E engine_raised \in BOOLEAN :
           /\ db_manager' = initialize(db_manager, engine_raised)
           /\ background' =
                  IF initialize_raised(db_manager, engine_raised)
                  THEN background ELSE Started
    /\ <<db_manager, background>>' # <<db_manager, background>>
    /\ UNCHANGED <<events, sessions, max_batch_size, cleanup_runs,
                   accepted_rows, request, response, feed, ingests,
                   registry>>

\* The shutdown half of the lifespan: background_service.stop when there
\* is a background service, then db_manager.shutdown.
ShutdownApp ==
    /\ \E dispose_raised \in BOOLEAN :
           db_manager' = shutdown(db_manager, dispose_raised)
    /\ background' = stop(background)
    /\ <<db_manager, background>>' # <<db_manager, background>>
    /\ UNCHANGED <<events, sessions, max_batch_size, cleanup_runs,
                   accepted_rows, request, response, feed, ingests,
                   registry>>

\* The database goes away or comes back.
Connectivity ==
    /\ db_manager' = [db_manager EXCEPT !.reachable = ~@]
    /\ UNCHANGED <<events, sessions, max_batch_size, cleanup_runs,
                   accepted_rows, request, response, background, feed,
                   ingests, registry>>

\* An orchestrator asks GET /ready.
Readiness ==
    /\ Idle
    /\ request' = [kind |-> "ready"]
    /\ response' = readiness(db_manager)
    /\ UNCHANGED <<events, sessions, max_batch_size, cleanup_runs,
                   accepted_rows, background, feed, ingests, db_manager,
                   registry>>

\* A monitor asks GET /health.
HealthCheck ==
    /\ Idle
    /\ request' = [kind |-> "health"]
    /\ response' = health_check(db_manager)
    /\ UNCHANGED <<events, sessions, max_batch_size, cleanup_runs,
                   accepted_rows, background, feed, ingests, db_manager,
                   registry>>

\* GET /live: answered whenever the process runs.
Liveness ==
    /\ Idle
    /\ request' = [kind |-> "live"]
    /\ response' = [kind |-> "live", alive |-> TRUE]
    /\ UNCHANGED <<events, sessions, max_batch_size, cleanup_runs,
                   accepted_rows, background, feed, ingests, db_manager,
                   registry>>

NextLifecycle ==
    Startup \/ ShutdownApp \/ Connectivity \/ Readiness \/ HealthCheck
        \/ Liveness \/ Ack

SpecLifecycle == InitLifecycle /\ [][NextLifecycle]_vars

\* The names under which clients register models.
ModelNames == {"budget", "forecast"}

\* POST /api/models/register
RegisterModel ==
    /\ Idle
    /\ Cardinality(registry) < MaxModels
    /\ \E model_name \in ModelNames,
          existing_model_id \in {None} \cup {Some(i) : i \in 1..MaxModels},
          commit_raised \in BOOLEAN :
           LET r == register(registry, model_name, existing_model_id,
                             commit_raised)
           IN /\ request' = [kind |-> "register",
                             model_name |-> model_name,
                             existing_model_id |-> existing_model_id]
              /\ response' = r.response
              /\ registry' = r.registry
    /\ UNCHANGED <<events, sessions, max_batch_size, cleanup_runs,
                   accepted_rows, background, feed, ingests, db_manager>>

\* GET /api/models
ListModels ==
    /\ Idle
    /\ \E active_only \in BOOLEAN :
           /\ request' = [kind |-> "list_models",
                          active_only |-> active_only]
           /\ response' = [kind |-> "models",
                           models |-> list_models(registry, active_only)]
    /\ UNCHANGED <<events, sessions, max_batch_size, cleanup_runs,
                   accepted_rows, background, feed, ingests, db_manager,
                   registry>>

NextModels == RegisterModel \/ ListModels \/ Ack

SpecModels == Init /\ [][NextModels]_vars

\* The values of AuditEventType: WORKBOOK_NEW = 0 up to ERROR = 16.
AuditEventTypes == 0..16

\* max_length of AuditEventBatch.events; min_length is 1.
batch_max_length == 1000

\* As AuditEventBatch, but the events that fail validation are left out and
\* the others are passed on.
AuditEventBatch_dropping_invalid(raw_events) ==
    LET valid == SelectSeq(raw_events,
                           LAMBDA e : e.event_type \in AuditEventTypes)
    IN [ok |-> Len(valid) >= 1 /\ Len(valid) <= batch_max_length,
        events |-> [i \in 1..Len(valid) |-> AuditEventCreate(valid[i])]]

\* AuditEventBatch: validation of the request body.  Each event is
\* validated as an AuditEventCreate, whose event_type must be a value of
\* AuditEventType; one validation error fails the whole body.
AuditEventBatch(raw_events) ==
    [ok |-> /\ Len(raw_events) >= 1
            /\ Len(raw_events) <= batch_max_length
            /\ \A i \in 1..Len(raw_events) :
                   raw_events[i].event_type \in AuditEventTypes,
     events |-> [i \in 1..Len(raw_events) |->
                    AuditEventCreate(raw_events[i])]]

\* The response to a body that fails validation: 422, from the framework.
Unprocessable == [kind |-> "unprocessable", status |-> 422]

\* What a client may post: two valid events and two whose event type is no
\* value of AuditEventType, one of them for a session of a valid event and
\* earlier than it, one for a session of its own.
PostCatalogue ==
    {RawEvent(1, Aware(2), SESSION_START, Some("u1"), Some("m1"), Some("s1"),
              Some("w1"), None, None),
     RawEvent(2, Naive(3), CELL_CHANGE, Some("u2"), Some("m2"), Some("s2"),
              Some("w1"), None, None),
     RawEvent(3, Aware(1), 17, Some("u3"), Some("m3"), Some("s1"),
              Some("w2"), None, None),
     RawEvent(4, Aware(1), 99, Some("u3"), Some("m3"), Some("s3"),
              Some("w2"), None, None)}

\* The client starts on a request body, or adds an event as it is, not yet
\* validated, to the body it is composing.
ComposePost ==
    /\ response = NoResponse
    /\ \/ /\ request = EmptyBatch
          /\ request' = [kind |-> "post", events |-> <<>>]
       \/ /\ request.kind = "post"
          /\ Len(request.events) < MaxLen
          /\ \E raw \in PostCatalogue :
                 request' = [request EXCEPT !.events = Append(@, raw)]
    /\ UNCHANGED <<events, sessions, max_batch_size, cleanup_runs,
                   accepted_rows, response, background, feed, ingests,
                   db_manager, registry>>

\* POST /api/events with the body as the client sent it: the body is
\* validated as an AuditEventBatch before ingest_events is called.
Post ==
    /\ request.kind = "post"
    /\ response = NoResponse
    /\ LET batch == AuditEventBatch(request.events)
       IN IF ~batch.ok
          THEN /\ response' = Unprocessable
               /\ UNCHANGED <<events, sessions, accepted_rows>>
          ELSE \E fault \in Faults :
                   LET r == ingest_batch(Db(events, sessions), batch.events,
                                         TRUE, max_batch_size, fault)
                       final == session_exit(r.db, r.tx, r.broken)
                   IN /\ events' = final.events
                      /\ sessions' = final.sessions
                      /\ response' = r.response
                      /\ accepted_rows' =
                             accepted_rows \cup (final.events \ events)
    /\ UNCHANGED <<max_batch_size, cleanup_runs, request, background, feed,
                   ingests, db_manager, registry>>

NextPost == ComposePost \/ Post \/ Ack

SpecPost == Init /\ [][NextPost]_vars

\* The session the concurrent requests write to.
SharedSession == "s1"

\* The events each of the concurrent requests may send: ids of their own,
\* all for the shared session, at instants before its first event.
ConcurrentCatalogue(w) ==
    IF w = 1
    THEN {RawEvent(4, Aware(1), CELL_CHANGE, Some("u1"), Some("m1"),
                   Some(SharedSession), Some("w1"), None, None),
          RawEvent(5, Aware(2), CELL_CHANGE, Some("u3"), Some("m3"),
                   Some(SharedSession), Some("w1"), None, None)}
    ELSE {RawEvent(6, Aware(2), CELL_CHANGE, Some("u2"), Some("m2"),
                   Some(SharedSession), Some("w1"), None, None),
          RawEvent(7, Naive(0), WORKBOOK_SAVE, Some("u1"), Some("m1"),
                   Some(SharedSession), Some("w1"), None, None)}

\* The batches of one or two different events a request may carry.
ConcurrentBatches(w) ==
    {<<AuditEventCreate(a)>> : a \in ConcurrentCatalogue(w)}
        \cup {<<AuditEventCreate(p[1]), AuditEventCreate(p[2])>> :
                  p \in {q \in ConcurrentCatalogue(w)
                                   \X ConcurrentCatalogue(w) :
                             q[1] # q[2]}}

\* What was ingested before the concurrent requests arrive: nothing, or one
\* event of the shared session.
SeedBatches ==
    {<<>>} \cup {<<AuditEventCreate(e)>> :
                    e \in {c \in SessionCatalogue :
                              c.session_id = Some(SharedSession)}}

\* The store after the ingestion of a seed batch.
InitConcurrent ==
    /\ max_batch_size \in BatchSizeSettings
    /\ \E seed \in SeedBatches :
           LET r == ingest_batch(Db({}, EmptyRegistry), seed, TRUE,
                                 max_batch_size, "none")
           IN /\ events = r.db.events
              /\ sessions = r.db.sessions
              /\ accepted_rows = r.db.events
    /\ cleanup_runs = 0
    /\ request = EmptyBatch
    /\ response = NoResponse
    /\ background = Started
    /\ feed = NoFeed
    /\ ingests = NoIngests
    /\ db_manager = Initialized
    /\ registry = {}

\* POST /api/events reaches the SELECT of upsert_session and awaits it.
BeginIngest ==
    /\ \E w \in Workers :
           /\ ingests[w].pc = "idle"
           /\ \E evs \in ConcurrentBatches(w) :
                  ingests' =
                      [ingests EXCEPT
                          ![w] = ingest_selected(sessions, evs, SharedSession,
                                                 max_batch_size)]
    /\ UNCHANGED <<events, sessions, max_batch_size, cleanup_runs,
                   accepted_rows, request, response, background, feed,
                   db_manager, registry>>

\* The request goes on from the SELECT to its commit and is answered.
FinishIngest ==
    /\ \E w \in Workers :
           /\ ingests[w].pc = "selected"
           /\ LET r == ingest_flushed(Db(events, sessions), ingests[w],
                                      SharedSession, max_batch_size)
              IN /\ events' = r.db.events
                 /\ sessions' = r.db.sessions
                 /\ accepted_rows' = accepted_rows \cup (r.db.events \ events)
                 /\ ingests' = [ingests EXCEPT ![w].pc = "done",
                                               ![w].response = r.response]
    /\ UNCHANGED <<max_batch_size, cleanup_runs, request, response,
                   background, feed, db_manager, registry>>

NextConcurrent == BeginIngest \/ FinishIngest

SpecConcurrent == InitConcurrent /\ [][NextConcurrent]_vars

----------------------------------------------------------------------------
(* Vocabulary of the properties *)

\* A step in which the service answers the batch in request.
IngestStep ==
    /\ request.kind = "batch"
    /\ response = NoResponse
    /\ response'.kind = "ingest"

\* The batch has been answered, in the state after the step.
Answered == request.kind = "batch" /\ response.kind = "ingest"

Admitted == Len(request.events) <= max_batch_size

\* The event carries a session id that is neither missing nor empty.
HasSessionId(e) == e.session_id # None /\ e.session_id # Some("")

\* The session ids a batch carries and how often it carries each.
BatchSessionIds(evs) ==
    {evs[i].session_id[1] : i \in {j \in 1..Len(evs) : HasSessionId(evs[j])}}

BatchCount(evs, sid) ==
    Cardinality({i \in 1..Len(evs) :
                    HasSessionId(evs[i]) /\ evs[i].session_id[1] = sid})

\* The earliest instant at which the batch carries the session id.
BatchEarliest(evs, sid) ==
    LET ts == {evs[i].timestamp.t : i \in {j \in 1..Len(evs) :
                  HasSessionId(evs[j]) /\ evs[j].session_id[1] = sid}}
    IN CHOOSE t \in ts : \A u \in ts : t <= u

StoredIds == {row.event_id : row \in events}

\* The batch carries an id that is stored or carries an id twice.
BatchHasDuplicate(evs) ==
    \/ \E i \in 1..Len(evs) : evs[i].event_id \in StoredIds
    \/ \E i, j \in 1..Len(evs) : i # j /\ evs[i].event_id = evs[j].event_id

\* The sum of event_count over a registry.
RECURSIVE TotalEventCount(_)
TotalEventCount(ss) ==
    IF DOMAIN ss = {} THEN 0
    ELSE LET s == CHOOSE x \in DOMAIN ss : TRUE
         IN ss[s].event_count
            + TotalEventCount([t \in DOMAIN ss \ {s} |-> ss[t]])

----------------------------------------------------------------------------
(* C1: a batch longer than max_batch_size is answered with accepted = 0 and *)
(* rejected = its length, and the step leaves the event store and the       *)
(* session registry as they were.                                           *)

C1_OversizedBatchRejected ==
    [][(IngestStep /\ ~Admitted) =>
          /\ response'.accepted = 0
          /\ response'.rejected = Len(request.events)
          /\ events' = events
          /\ sessions' = sessions]_vars

\* An oversized batch was answered although all its events could have been
\* stored and it names a session the registry does not have.
C1_Witness ==
    /\ Answered
    /\ ~Admitted
    /\ response.rejected = Len(request.events)
    /\ ~BatchHasDuplicate(request.events)
    /\ \E sid \in BatchSessionIds(request.events) : sid \notin DOMAIN sessions

----------------------------------------------------------------------------
(* C2: ingestion of an admitted batch of n events is all-or-nothing: either *)
(* all n rows are added to the committed store and the response is          *)
(* accepted = n, rejected = 0, or the committed store is unchanged and the  *)
(* response is accepted = 0, rejected = n with at least one error.          *)

C2_AllOrNothing ==
    [][(IngestStep /\ Admitted) =>
          LET n == Len(request.events)
              rows == {request.events[i] : i \in 1..n}
          IN \/ /\ response'.accepted = n
                /\ response'.rejected = 0
                /\ events' = events \cup rows
                /\ Cardinality(events') = Cardinality(events) + n
             \/ /\ response'.accepted = 0
                /\ response'.rejected = n
                /\ response'.errors # <<>>
                /\ events' = events]_vars

\* A batch of several events was rejected for one stored id although
\* another of its events was new.
C2_Witness ==
    /\ Answered
    /\ Admitted
    /\ Len(request.events) >= 2
    /\ response.rejected = Len(request.events)
    /\ response.errors = <<"IntegrityError: INSERT">>
    /\ \E i \in 1..Len(request.events) :
           request.events[i].event_id \notin StoredIds
    /\ events # {}

----------------------------------------------------------------------------
(* C3: when an admitted batch is rejected because the insert of its events  *)
(* or the commit fails, the committed session registry is the one from      *)
(* before the call: no session is created and no session field changed.     *)

PersistenceErrors ==
    {"IntegrityError: INSERT", "OperationalError: INSERT",
     "OperationalError: COMMIT"}

C3_RejectedBatchLeavesSessions ==
    [][(/\ IngestStep
        /\ Admitted
        /\ response'.rejected > 0
        /\ response'.errors[1] \in PersistenceErrors) =>
          sessions' = sessions]_vars

\* A rejected batch named a session the registry does not have and a
\* session it has, the latter at an earlier time than its start_time.
C3_Witness ==
    /\ Answered
    /\ Admitted
    /\ response.rejected > 0
    /\ response.errors = <<"IntegrityError: INSERT">>
    /\ \E sid \in BatchSessionIds(request.events) : sid \notin DOMAIN sessions
    /\ \E sid \in BatchSessionIds(request.events) :
           /\ sid \in DOMAIN sessions
           /\ BatchEarliest(request.events, sid) < sessions[sid].start_time.t

----------------------------------------------------------------------------
(* C4: a successful ingestion adds to the event counts of the registry, in  *)
(* total, the number of events of the batch that carry a non-empty session  *)
(* id, each session receiving the number of events that name it; sessions   *)
(* the batch does not name are untouched and events without a session id or *)
(* with an empty one create no session.                                     *)

C4_EventCountIncrements ==
    [][(IngestStep /\ response'.rejected = 0) =>
          LET evs == request.events
              named == BatchSessionIds(evs)
          IN /\ TotalEventCount(sessions') - TotalEventCount(sessions)
                    = Cardinality({i \in 1..Len(evs) : HasSessionId(evs[i])})
             /\ DOMAIN sessions' = DOMAIN sessions \cup named
             /\ \A sid \in named :
                    sessions'[sid].event_count
                        = BatchCount(evs, sid)
                          + (IF sid \in DOMAIN sessions
                             THEN sessions[sid].event_count ELSE 0)
             /\ \A sid \in DOMAIN sessions \ named :
                    sessions'[sid] = sessions[sid]]_vars

\* An accepted batch carried an event without session id, an event with an
\* empty one and two events of one session.
C4_Witness ==
    /\ Answered
    /\ response.accepted = Len(request.events)
    /\ \E i \in 1..Len(request.events) : request.events[i].session_id = None
    /\ \E sid \in BatchSessionIds(request.events) :
           BatchCount(request.events, sid) >= 2
    /\ "" \notin DOMAIN sessions

----------------------------------------------------------------------------
(* C5: the start_time of every session is the earliest timestamp among all  *)
(* events accepted so far that carry its session id, and no step moves the  *)
(* start_time of an existing session to a later instant.                    *)

EarliestAccepted(rows, sid) ==
    LET ts == {row.timestamp.t : row \in {r \in rows : r.session_id = Some(sid)}}
    IN CHOOSE t \in ts : \A u \in ts : t <= u

C5_StartTimeIsEarliest ==
    [][/\ \A sid \in DOMAIN sessions' :
              sessions'[sid].start_time.t
                  = EarliestAccepted(accepted_rows', sid)
       /\ \A sid \in DOMAIN sessions :
              /\ sid \in DOMAIN sessions'
              /\ sessions'[sid].start_time.t <= sessions[sid].start_time.t]_vars

\* An accepted batch named a session only at instants later than the
\* session's start_time, which was therefore kept.
C5_Witness ==
    /\ Answered
    /\ Len(request.events) >= 2
    /\ response.accepted = Len(request.events)
    /\ \E sid \in BatchSessionIds(request.events) :
           /\ BatchCount(request.events, sid) >= 2
           /\ sessions[sid].start_time.t
                  < BatchEarliest(request.events, sid)

----------------------------------------------------------------------------
(* C6: a step creates a session exactly when it is a successful ingestion   *)
(* of a batch that carries a session id the registry does not have; the new *)
(* session starts at the batch's earliest timestamp for that id, counts the *)
(* batch's events for that id and has no end_time.  In particular three     *)
(* events of session s1 at T, T+1, T+2 create s1 with start_time T and      *)
(* event_count 3.                                                           *)

C6_SessionCreation ==
    [][LET created == DOMAIN sessions' \ DOMAIN sessions
       IN /\ created = IF IngestStep /\ response'.rejected = 0
                       THEN BatchSessionIds(request.events) \ DOMAIN sessions
                       ELSE {}
          /\ \A sid \in created :
                 /\ sessions'[sid].start_time
                        = Aware(BatchEarliest(request.events, sid))
                 /\ sessions'[sid].event_count
                        = BatchCount(request.events, sid)
                 /\ sessions'[sid].end_time = None]_vars

\* The scenario: the accepted batch is three events of s1 at 1, 2, 3 and
\* the registry holds s1 with start_time 1, event_count 3 and no end_time.
C6_Witness ==
    /\ Answered
    /\ response.accepted = 3
    /\ Len(request.events) = 3
    /\ \A i \in 1..3 :
           /\ request.events[i].session_id = Some("s1")
           /\ request.events[i].timestamp = Aware(i)
    /\ "s1" \in DOMAIN sessions
    /\ sessions["s1"].start_time = Aware(1)
    /\ sessions["s1"].event_count = 3
    /\ sessions["s1"].end_time = None

----------------------------------------------------------------------------
(* C7: every event of an accepted batch is stored with all its fields as    *)
(* ingested; a step that is not a cleanup run removes no stored row and     *)
(* changes none; get_event returns the stored row with the requested id,    *)
(* all fields as ingested, or nothing when no such row is stored.           *)

GetEventStep == response = NoResponse /\ response'.kind = "event"

GetEventAnswer ==
    response.kind = "event" =>
        LET stored == {row \in events : row.event_id = request.event_id}
        IN IF stored = {}
           THEN response.event = None
           ELSE /\ response.event # None
                /\ response.event[1] \in stored
                /\ response.event[1] \in accepted_rows

C7_RoundTrip ==
    [][/\ (IngestStep /\ response'.accepted > 0) =>
              \A i \in 1..Len(request.events) : request.events[i] \in events'
       /\ cleanup_runs' = cleanup_runs => events \subseteq events'
       /\ GetEventStep => GetEventAnswer']_vars

\* A cleanup run has deleted rows, and a lookup returned a stored event
\* that carries a correlation id and free text.
C7_Witness ==
    /\ response.kind = "event"
    /\ response.event # None
    /\ response.event[1] \in events
    /\ response.event[1].correlation_id # None
    /\ response.event[1].details # None
    /\ cleanup_runs > 0
    /\ events # accepted_rows

----------------------------------------------------------------------------
(* C8: no two stored events share an event_id; an admitted batch that       *)
(* carries a stored id, or one id twice, is rejected as a whole and leaves  *)
(* the store as it was.                                                     *)

UniqueEventIds ==
    \A r1, r2 \in events : r1.event_id = r2.event_id => r1 = r2

C8_EventIdUnique ==
    [][/\ UniqueEventIds'
       /\ (IngestStep /\ Admitted /\ BatchHasDuplicate(request.events)) =>
              /\ response'.accepted = 0
              /\ response'.rejected = Len(request.events)
              /\ events' = events]_vars

\* A rejected batch carried the id of a stored event with other fields, and
\* carried one id twice.
C8_Witness ==
    /\ Answered
    /\ Admitted
    /\ response.rejected = Len(request.events)
    /\ \E i \in 1..Len(request.events) : \E row \in events :
           row.event_id = request.events[i].event_id /\ row # request.events[i]
    /\ \E i, j \in 1..Len(request.events) :
           /\ i # j
           /\ request.events[i].event_id = request.events[j].event_id
           /\ request.events[i] # request.events[j]

----------------------------------------------------------------------------
(* C9, C10: the query engine *)

QueryAnswered == request.kind = "query" /\ response.kind = "query"

\* The same filter asked with another page and another sort.
PagingVariants(q) ==
    {[q EXCEPT !.offset = o, !.limit = l, !.order_by = c, !.order_desc = d] :
        o \in 0..(MaxLen + 1), l \in {1, limit_max},
        c \in {"timestamp", "event_id", "no_such_column"}, d \in BOOLEAN}

\* C9: for the store and the filter of an answered query, every offset,
\* every limit and every sort the query accepts gives the same total, the
\* total is the number of stored events the filter keeps, and the page is
\* the slice of that many events the offset and the limit cut out.
C9_TotalInvariantToPaging ==
    QueryAnswered =>
        LET q == request.params
            kept == {row \in events : row_matches(row, q)}
        IN /\ \A v \in PagingVariants(q) :
                  LET r == query_events(events, v)
                  IN ~r.raised /\ r.total = response.total
           /\ response.total = Cardinality(kept)
           /\ Len(response.events) =
                  IF q.offset >= response.total THEN 0
                  ELSE Min(q.limit, response.total - q.offset)

\* A query with a filter that removes a stored event and an offset that
\* skips a kept one returned a page shorter than its total.
C9_Witness ==
    /\ QueryAnswered
    /\ request.params.offset > 0
    /\ Len(response.events) > 0
    /\ response.total > Len(response.events)
    /\ response.total < Cardinality(events)

\* A row satisfies every filter the request carries: a filter is carried
\* when its parameter is not None.
SatisfiesSupplied(row, q) ==
    /\ q.event_types # None => row.event_type \in q.event_types[1]
    /\ q.user_names # None =>
           row.user_name # None /\ row.user_name[1] \in q.user_names[1]
    /\ q.session_ids # None =>
           row.session_id # None /\ row.session_id[1] \in q.session_ids[1]
    /\ q.workbook_names # None =>
           /\ row.workbook_name # None
           /\ row.workbook_name[1] \in q.workbook_names[1]
    /\ q.correlation_id # None => row.correlation_id = q.correlation_id
    /\ q.start_time # None => q.start_time[1].t <= row.timestamp.t
    /\ q.end_time # None => row.timestamp.t <= q.end_time[1].t

\* C10: the events a query matches are exactly the stored events that
\* satisfy every supplied filter, the time bounds inclusive: the total
\* counts them and the page shows only them.
C10_MatchedSet ==
    QueryAnswered =>
        LET q == request.params
            matched == {row \in events : SatisfiesSupplied(row, q)}
        IN /\ response.total = Cardinality(matched)
           /\ \A i \in 1..Len(response.events) :
                  \E row \in matched :
                      response.events[i] = AuditEventResponse(row)

----------------------------------------------------------------------------
(* C11..C13: the default sort, the sort fallback, statistics *)

DefaultSort(q) == q.order_by = "timestamp" /\ q.order_desc

\* C11: with the default sort the page is the segment [offset, offset+limit)
\* of the matching events ordered by timestamp descending: its length is
\* min(limit, max(total - offset, 0)), it shows matching events, each once,
\* newest first, and the event at place offset+i has fewer than offset+i
\* matching events newer than it and at least offset+i that are not older.
\* With 5 events stored, no filter, limit 1 and offset 0 the total is 5 and
\* the one event returned has the greatest timestamp.
C11_DefaultSortPage ==
    (QueryAnswered /\ DefaultSort(request.params)) =>
        LET q == request.params
            kept == {row \in events : row_matches(row, q)}
            page == response.events
            newer(i) == {row \in kept :
                            row.timestamp.t > page[i].timestamp.t}
            not_older(i) == {row \in kept :
                                row.timestamp.t >= page[i].timestamp.t}
        IN /\ response.total = Cardinality(kept)
           /\ Len(page) = Min(q.limit,
                              IF response.total > q.offset
                              THEN response.total - q.offset ELSE 0)
           /\ \A i \in 1..Len(page) :
                  /\ \E row \in kept : page[i] = AuditEventResponse(row)
                  /\ Cardinality(newer(i)) <= q.offset + i - 1
                  /\ Cardinality(not_older(i)) >= q.offset + i
           /\ \A i, j \in 1..Len(page) :
                  i < j => /\ page[i].event_id # page[j].event_id
                           /\ page[i].timestamp.t >= page[j].timestamp.t
           /\ (Cardinality(events) = 5 /\ kept = events /\ q.limit = 1
               /\ q.offset = 0) =>
                  /\ response.total = 5
                  /\ Len(page) = 1
                  /\ \A row \in events :
                         row.timestamp.t <= page[1].timestamp.t

\* Five events are stored and a query with limit 1, offset 0 and the default
\* sort returned one event and total 5.
C11_Witness ==
    /\ QueryAnswered
    /\ DefaultSort(request.params)
    /\ Cardinality(events) = 5
    /\ request.params.limit = 1
    /\ request.params.offset = 0
    /\ response.total = 5
    /\ Len(response.events) = 1

\* A page in the order of its timestamps, in the direction asked for.
InTimestampOrder(page, order_desc) ==
    \A i, j \in 1..Len(page) :
        i < j => IF order_desc
                 THEN page[i].timestamp.t >= page[j].timestamp.t
                 ELSE page[i].timestamp.t <= page[j].timestamp.t

\* C12: a query whose order_by names no event column does not fail: it is
\* answered with the matching events ordered by timestamp in the direction
\* asked for.
C12_SortFallback ==
    (request.kind = "query" /\ response # NoResponse
     /\ request.params.order_by \notin SortableColumns) =>
        /\ response.kind = "query"
        /\ response.total =
               Cardinality({row \in events :
                               row_matches(row, request.params)})
        /\ InTimestampOrder(response.events, request.params.order_desc)

StatisticsAnswered ==
    request.kind = "statistics" /\ response.kind = "statistics"

\* C13: in every statistics answer total_events is the number of stored
\* events with period_start <= timestamp <= period_end, the period being
\* the one asked for (by default the 24 hours up to now), and none of
\* unique_users, unique_sessions, unique_workbooks exceeds total_events.
C13_DistinctCountsWithinTotal ==
    StatisticsAnswered =>
        LET stats == response.stats
            last == IF request.end_time = None THEN request.now.t
                    ELSE request.end_time[1].t
            first == IF request.start_time = None
                     THEN last - statistics_period_days
                     ELSE request.start_time[1].t
            inside == {row \in events : /\ first <= row.timestamp.t
                                        /\ row.timestamp.t <= last}
        IN /\ stats.total_events = Cardinality(inside)
           /\ stats.unique_users <= stats.total_events
           /\ stats.unique_sessions <= stats.total_events
           /\ stats.unique_workbooks <= stats.total_events

\* Statistics over a period that leaves a stored event out: every user in
\* the period is counted once, and two events of the period share a session.
C13_Witness ==
    /\ StatisticsAnswered
    /\ response.stats.total_events > 1
    /\ response.stats.total_events < Cardinality(events)
    /\ response.stats.unique_users = response.stats.total_events
    /\ response.stats.unique_sessions < response.stats.total_events

----------------------------------------------------------------------------
(* C14..C18: the scheduled jobs *)

\* A run of the event cleanup job, and one that completed.
CleanupRun ==
    cleanup_runs' = cleanup_runs + 1 /\ background'.last.job = CLEANUP_JOB
CleanupCompleted == CleanupRun /\ ~background'.last.failed

\* C14: after a completed run of the event cleanup with cutoff = now -
\* retention_days no stored event is older than the cutoff, every event that
\* was not older is still stored as it was, nothing else is stored, and the
\* count the run returns is the number of events it removed.
C14_CleanupRemovesOnlyOld ==
    [][CleanupCompleted =>
           LET cutoff == background'.last.cutoff.t
           IN /\ \A row \in events' : row.timestamp.t >= cutoff
              /\ \A row \in events :
                     row.timestamp.t >= cutoff => row \in events'
              /\ events' \subseteq events
              /\ background'.last.count = Cardinality(events \ events')]_vars

\* A completed cleanup run has removed an event and kept another.
C14_Witness ==
    /\ background.last.job = CLEANUP_JOB
    /\ ~background.last.failed
    /\ background.last.count > 0
    /\ events # {}
    /\ accepted_rows \ events # {}
    /\ \A row \in events : row.timestamp.t >= background.last.cutoff.t

\* C15: in every run of delete_old_events each delete statement removes at
\* most batch_size events, every statement but the last removes batch_size
\* of them, and the run ends with the first statement that removes fewer.
C15_BoundedDeleteBatches ==
    (request.kind = "delete_old_events" /\ response.kind = "deleted") =>
        LET statements == response.statements
            batch_size == request.batch_size
        IN /\ statements # <<>>
           /\ \A i \in 1..Len(statements) : statements[i] <= batch_size
           /\ \A i \in 1..(Len(statements) - 1) : statements[i] = batch_size
           /\ statements[Len(statements)] < batch_size

\* A run of the stale-session job.
ReaperRun == background'.ticks = background.ticks + 1

\* A session without end_time, and one that started before the cutoff.
Active(ss, sid) == ss[sid].end_time = None
StartedBefore(ss, sid, cutoff) == ss[sid].start_time.t < cutoff.t

\* C16: after one run of the stale-session job at time now every session
\* that had no end_time and start_time < now - 24h has end_time =
\* start_time + 24h, every session that had no end_time and start_time >=
\* now - 24h still has none, and no other field of any session has changed.
C16_ReaperClosesStale ==
    [][ReaperRun =>
           LET cutoff == background'.last.cutoff
           IN /\ DOMAIN sessions' = DOMAIN sessions
              /\ \A sid \in DOMAIN sessions :
                     /\ (Active(sessions, sid)
                         /\ StartedBefore(sessions, sid, cutoff)) =>
                            /\ sessions'[sid].end_time # None
                            /\ sessions'[sid].end_time[1].t =
                                   sessions[sid].start_time.t
                                       + stale_session_days
                     /\ (Active(sessions, sid)
                         /\ ~StartedBefore(sessions, sid, cutoff)) =>
                            sessions'[sid].end_time = None
                     /\ [sessions'[sid] EXCEPT !.end_time = None]
                            = [sessions[sid] EXCEPT !.end_time = None]]_vars

\* C17: no ingestion sets, changes or clears the end_time of a session, and
\* a session it creates has none; a closed session that receives further
\* events stays closed and its event_count grows by their number; an
\* end_time that is set is never changed, and only a run of the
\* stale-session job sets one.
C17_EndTimeOnlyByReaper ==
    [][/\ IngestStep =>
              /\ \A sid \in DOMAIN sessions :
                     /\ sid \in DOMAIN sessions'
                     /\ sessions'[sid].end_time = sessions[sid].end_time
              /\ \A sid \in DOMAIN sessions' \ DOMAIN sessions :
                     sessions'[sid].end_time = None
              /\ response'.accepted > 0 =>
                     \A sid \in DOMAIN sessions :
                         sessions[sid].end_time # None =>
                             sessions'[sid].event_count =
                                 sessions[sid].event_count
                                     + BatchCount(request.events, sid)
       /\ \A sid \in DOMAIN sessions :
              /\ sid \in DOMAIN sessions'
              /\ sessions[sid].end_time # None =>
                     sessions'[sid].end_time = sessions[sid].end_time
              /\ sessions'[sid].end_time # sessions[sid].end_time =>
                     ReaperRun]_vars

\* A session was closed by the job and has then received an earlier event:
\* it is still closed, its start has moved and its count has grown.
C17_Witness ==
    \E sid \in DOMAIN sessions :
        /\ sessions[sid].end_time # None
        /\ sessions[sid].end_time[1].t
               # sessions[sid].start_time.t + stale_session_days
        /\ sessions[sid].event_count >= 2
        /\ background.last.job = REAPER_JOB

\* A run of either job.
JobRun == ReaperRun \/ CleanupRun

----------------------------------------------------------------------------
(* C19, C20: the live feed *)

\* One turn of the polling loop, and one that sent a message.
PollStep == feed'.polls = next_poll(feed.polls)
UpdateSent == PollStep /\ Len(feed'.sent) = Len(feed.sent) + 1

\* The stored events newer than a watermark; all of them when there is none.
NewerThan(watermark) ==
    {row \in events : watermark = None \/ row.timestamp.t > watermark[1].t}

\* C19: an update message holds only stored events whose timestamp is
\* strictly greater than the connection's watermark at the poll, at most
\* delivery_limit of them and the newest of them, newest first, with the
\* metrics of the store at the poll; afterwards the watermark is the
\* greatest timestamp delivered.  For every limit get_events_since returns
\* at most limit events.
C19_UpdateDeliversNewer ==
    [][/\ UpdateSent =>
              LET message == feed'.sent[Len(feed'.sent)]
                  delivered == message.events
                  newer == NewerThan(feed.last_sent_timestamp)
              IN /\ message.type = "update"
                 /\ delivered # <<>>
                 /\ Len(delivered) <= delivery_limit
                 /\ Len(delivered) = Min(delivery_limit, Cardinality(newer))
                 /\ \A i \in 1..Len(delivered) :
                        \E row \in newer :
                            delivered[i] = serialize_event(row)
                 /\ \A i, j \in 1..Len(delivered) :
                        i < j =>
                            /\ delivered[i].event_id # delivered[j].event_id
                            /\ delivered[i].timestamp.t
                                   >= delivered[j].timestamp.t
                 /\ \A row \in newer :
                        row.timestamp.t
                            > delivered[Len(delivered)].timestamp.t =>
                                \E i \in 1..Len(delivered) :
                                    delivered[i].event_id = row.event_id
                 /\ message.metrics.total_events = Cardinality(events)
                 /\ message.metrics.total_workbooks =
                        Cardinality({row.workbook_name : row \in events}
                                        \ {None})
                 /\ feed'.last_sent_timestamp # None
                 /\ \A i \in 1..Len(delivered) :
                        delivered[i].timestamp.t
                            <= feed'.last_sent_timestamp[1].t
                 /\ \E i \in 1..Len(delivered) :
                        delivered[i].timestamp
                            = feed'.last_sent_timestamp[1]
       /\ \A limit \in 1..MaxLen :
              \A list \in get_events_since(events, feed.last_sent_timestamp,
                                           limit) :
                  Len(list) <= limit]_vars

\* The initial message delivered an event, and an update has delivered two
\* more.
C19_Witness ==
    /\ Len(feed.sent) >= 2
    /\ feed.sent[1].events # <<>>
    /\ Len(feed.sent[2].events) >= 2

\* C20: a connection's first message is the one initial message, sent when
\* the feed is opened, also on an empty store, and every later message is an
\* update; a poll that finds no stored event newer than the watermark sends
\* nothing and leaves the watermark as it was.
C20_OneInitialMessage ==
    [][/\ (feed = NoFeed /\ feed' # feed) =>
              /\ Len(feed'.sent) = 1
              /\ feed'.sent[1].type = "initial"
              /\ feed'.sent[1].events = <<>> <=> events = {}
       /\ feed'.open => feed'.sent # <<>>
       /\ \A i \in 1..Len(feed'.sent) :
              feed'.sent[i].type = IF i = 1 THEN "initial" ELSE "update"
       /\ (PollStep /\ NewerThan(feed.last_sent_timestamp) = {}) =>
              /\ feed'.sent = feed.sent
              /\ feed'.last_sent_timestamp = feed.last_sent_timestamp]_vars

\* The feed was opened on an empty store; of two polls one sent an update
\* and one found nothing and sent nothing.
C20_Witness ==
    /\ feed.polls = 2
    /\ Len(feed.sent) = 2
    /\ feed.sent[1].events = <<>>
    /\ feed.sent[2].type = "update"

----------------------------------------------------------------------------
(* C21: the polling loop after the client has gone *)

\* The live feed with the event loop's scheduling: a handler that is running
\* wakes from its sleep and takes its next turn.
SpecFeedLive == Init /\ [][NextFeed]_vars /\ WF_vars(Poll)

\* The client has gone and the handler is still running.
Disconnected == feed.open /\ ~feed.connected

\* C21: after the client of the connection has disconnected, the polling
\* loop eventually stops and polls the store no more, whether or not events
\* are ingested afterwards.
C21_LoopStopsAfterDisconnect == Disconnected ~> ~feed.open

----------------------------------------------------------------------------
(* C22: concurrent batches for the same session *)

\* The request has been answered and every event of its batch accepted.
Succeeded(ing) ==
    /\ ing.pc = "done"
    /\ ing.response.accepted = Len(ing.events)

\* The session row existed when the request selected it.
FoundSession(ing) == ing.existing # None

\* C22: when two batches for the same existing session are ingested
\* concurrently and both succeed, then under every interleaving the
\* committed session starts at the earliest of its previous start and the
\* events of both batches, and its event_count is its previous count plus
\* the counts of both batches: with the history of accepted rows, the
\* earliest accepted event of the session and the number of them.
C22_NoLostSessionUpdate ==
    (\A w \in Workers : Succeeded(ingests[w]) /\ FoundSession(ingests[w])) =>
        LET rows == {row \in accepted_rows :
                        row.session_id = Some(SharedSession)}
            session == sessions[SharedSession]
        IN /\ session.event_count = Cardinality(rows)
           /\ \A row \in rows : session.start_time.t <= row.timestamp.t
           /\ \E row \in rows : session.start_time.t = row.timestamp.t

----------------------------------------------------------------------------
(* C23: ingest_batch always answers with a structured outcome *)

\* C23: ingest_batch never raises to its caller: for every batch, with or
\* without session tracking, and for every failure of the session update or
\* of the persistence of the events, it returns a BatchIngestResponse whose
\* accepted and rejected add up to the length of the batch, with accepted
\* either 0 or that length, and with an error whenever events are rejected.
C23_AlwaysStructuredOutcome ==
    request.kind = "batch" =>
        \A fault \in Faults, track_sessions \in BOOLEAN :
            LET evs == request.events
                r == ingest_batch(Db(events, sessions), evs, track_sessions,
                                  max_batch_size, fault).response
            IN /\ r.kind = "ingest"
               /\ DOMAIN r = {"kind", "accepted", "rejected", "errors"}
               /\ r.accepted + r.rejected = Len(evs)
               /\ r.accepted \in {0, Len(evs)}
               /\ r.rejected > 0 => r.errors # <<>>

\* A batch of two events was rejected because the update of the sessions
\* failed.
C23_Witness ==
    /\ Answered
    /\ Admitted
    /\ Len(request.events) = 2
    /\ response.accepted = 0
    /\ response.rejected = 2
    /\ response.errors = <<"OperationalError: sessions">>

----------------------------------------------------------------------------
(* C24: a body with an event type outside the enumeration *)

\* A step in which the service answers the posted body.
PostStep ==
    /\ request.kind = "post"
    /\ response = NoResponse
    /\ response' # NoResponse

\* The body carries an event whose type is no value of AuditEventType.
HasInvalidEventType(raw_events) ==
    \E i \in 1..Len(raw_events) :
        raw_events[i].event_type \notin AuditEventTypes

\* C24: a request whose batch holds at least one event with an event type
\* outside the enumeration is rejected as a whole by validation, before
\* ingestion runs: it is answered 422, no event of the batch is stored and
\* no session is created or updated, the valid events of the same batch
\* included.
C24_InvalidTypeRejectsBatch ==
    [][(PostStep /\ HasInvalidEventType(request.events)) =>
          /\ response' = Unprocessable
          /\ events' = events
          /\ sessions' = sessions]_vars

\* A body was answered 422 that held, next to an event of an invalid type,
\* a valid event with a new id for a session the registry does not have.
C24_Witness ==
    /\ request.kind = "post"
    /\ response = Unprocessable
    /\ HasInvalidEventType(request.events)
    /\ \E i \in 1..Len(request.events) :
           /\ request.events[i].event_type \in AuditEventTypes
           /\ request.events[i].event_id \notin StoredIds
           /\ request.events[i].session_id[1] \notin DOMAIN sessions

----------------------------------------------------------------------------
(* C25: the readiness probe *)

\* An initialize call has completed without raising, and the store has not
\* been shut down since.
SuccessfullyInitialized == db_manager.started

\* C25: the readiness probe reports ready = true only in states where the
\* store has been successfully initialized: it reports not ready before
\* initialize, after shutdown, and after an initialize call that failed,
\* for instance because its connectivity check raised.
C25_ReadyOnlyWhenInitialized ==
    [][(Idle /\ request'.kind = "ready" /\ response'.ready) =>
          SuccessfullyInitialized]_vars

----------------------------------------------------------------------------
(* C26: the list of registered models *)

\* C26: after any sequence of register and re-register calls, re-registering
\* twice from the same existing model id included, list_models returns at
\* most one registered model for each model_name, the one with the highest
\* version.
C26_OneModelPerName ==
    response.kind = "models" =>
        /\ \A a, b \in response.models :
               a.model_name = b.model_name => a = b
        /\ \A a \in response.models :
               \A m \in registry :
                   m.model_name = a.model_name => m.version <= a.version

----------------------------------------------------------------------------
(* C27: the actor fields of a session after an ingest *)

\* The last event of the batch, in batch order, that carries the session id.
BatchLast(evs, sid) ==
    evs[CHOOSE i \in 1..Len(evs) :
            /\ HasSessionId(evs[i]) /\ evs[i].session_id[1] = sid
            /\ \A j \in (i + 1)..Len(evs) :
                   ~(HasSessionId(evs[j]) /\ evs[j].session_id[1] = sid)]

\* C27: after a successful ingest of a batch, user_name and machine_name of
\* each session the batch touches are those of the last event of the batch,
\* in batch order, that carries the session id, whatever the timestamps.
\* A session is touched when the step created its row or changed it.
C27_ActorOfLastEvent ==
    [][(IngestStep /\ response'.rejected = 0) =>
          \A sid \in BatchSessionIds(request.events) :
              (/\ sid \in DOMAIN sessions'
               /\ sid \in DOMAIN sessions => sessions'[sid] # sessions[sid])
              => /\ sessions'[sid].user_name =
                        BatchLast(request.events, sid).user_name
                 /\ sessions'[sid].machine_name =
                        BatchLast(request.events, sid).machine_name]_vars

----------------------------------------------------------------------------
(* C28: a failed run of a scheduled job *)

\* A step in which one of the two scheduled jobs runs.
JobTick ==
    \/ background'.ticks # background.ticks
    \/ cleanup_runs' # cleanup_runs

\* C28: a run of a scheduled job that fails leaves the store unchanged: when
\* the stale-session job or the event cleanup raises partway through a run,
\* no session closed and no event deleted earlier in that run remains
\* committed.
C28_FailedTickNoProgress ==
    [][(JobTick /\ background'.last.failed) =>
          /\ sessions' = sessions
          /\ events' = events]_vars

----------------------------------------------------------------------------
(* C29: the watermark of a connection and what has been delivered *)

\* C29: on a connection the watermark never decreases and grows strictly
\* with every update message, and no event is delivered twice: every event
\* of an update has a timestamp strictly greater than that of every event
\* delivered before on the connection, the initial message included.
C29_WatermarkStrictlyIncreases ==
    [][/\ (feed.open /\ feed.last_sent_timestamp # None) =>
              /\ feed'.last_sent_timestamp # None
              /\ feed'.last_sent_timestamp[1].t
                     >= feed.last_sent_timestamp[1].t
       /\ UpdateSent =>
              LET update == feed'.sent[Len(feed'.sent)].events
              IN /\ feed'.last_sent_timestamp # None
                 /\ feed.last_sent_timestamp # None =>
                        feed'.last_sent_timestamp[1].t
                            > feed.last_sent_timestamp[1].t
                 /\ \A k \in 1..Len(update) :
                        \A i \in 1..Len(feed.sent) :
                            \A j \in 1..Len(feed.sent[i].events) :
                                LET earlier == feed.sent[i].events[j]
                                IN /\ earlier.timestamp.t
                                          < update[k].timestamp.t
                                   /\ earlier.event_id
                                          # update[k].event_id]_vars

\* The initial message delivered an event and two updates followed it, each
\* with an event.
C29_Witness ==
    /\ Len(feed.sent) >= 3
    /\ feed.sent[1].events # <<>>
    /\ feed.sent[2].events # <<>>
    /\ feed.sent[3].events # <<>>
    /\ feed.last_sent_timestamp = Some(feed.sent[3].events[1].timestamp)

----------------------------------------------------------------------------
(* C30: conditional completeness of the live feed *)

\* The event with the id has been delivered on the connection.
DeliveredTimes(id) ==
    Cardinality({p \in {q \in (1..Len(feed.sent)) \X (1..delivery_limit) :
                           q[2] <= Len(feed.sent[q[1]].events)} :
                    feed.sent[p[1]].events[p[2]].event_id = id})

\* The connection is open and the event with the id is stored with a
\* timestamp above the connection's watermark: it was committed after the
\* initial message and not at or below the watermark.
AwaitingDelivery(id) ==
    /\ feed.open
    /\ feed.connected
    /\ \E row \in NewerThan(feed.last_sent_timestamp) : row.event_id = id

\* C30: if the connection stays open and keeps polling, at every poll at
\* most delivery_limit stored events are newer than the watermark, and no
\* event is committed with a timestamp at or below the watermark, then every
\* event committed after the initial message is eventually delivered on the
\* connection, and exactly once.
C30_EventuallyDeliveredOnce ==
    /\ \A id \in FollowIds :
           AwaitingDelivery(id) ~>
               (DeliveredTimes(id) = 1 \/ ~feed.connected)
    /\ [](\A id \in FollowIds :
              /\ DeliveredTimes(id) <= 1
              /\ Cardinality(NewerThan(feed.last_sent_timestamp))
                     <= delivery_limit)

\* An event committed after an initial message that had delivered another
\* one has been delivered by an update, and the client is still there.
C30_Witness ==
    /\ feed.connected
    /\ Len(feed.sent) = 2
    /\ Len(feed.sent[1].events) = 1
    /\ Len(feed.sent[2].events) = 1
    /\ feed.polls = 2

============================================================================
